---- MODULE Spec2Model ----
(***************************************************************************)
(* Semantic version ledger (VersionManager) and cross-file reference       *)
(* synchronizer (ProjectRefUpdater) of openapi2md.                         *)
(*                                                                         *)
(* Texts are sequences of one-character strings, so that the regular       *)
(* expressions, Number(), template strings and String.replace of the       *)
(* source are computed character by character.  A file is a record:        *)
(*   [kind |-> "absent"]                 no such file                      *)
(*   [kind |-> "text", chars |-> s]      a file holding the text s         *)
(*   [kind |-> "json", val |-> v]        a file holding JSON.stringify(v)  *)
(***************************************************************************)
EXTENDS Integers, Sequences, FiniteSets, TLC

VARIABLES pkg, logf, readme, clock, last, procs

vars == <<pkg, logf, readme, clock, last, procs>>

\* ------------------------------------------------------------------------
\* Bounds of the model
\* ------------------------------------------------------------------------

\* number of distinct canonical versions a hand edit may put in the manifest
NumVersions == 3

\* longest history of a version log that exists before the first call
MaxInitLog == 1

\* longest history of a version log found out of order on disk
MaxBadLog == 3

\* ------------------------------------------------------------------------
\* Text primitives
\* ------------------------------------------------------------------------

DigitChars == <<"0", "1", "2", "3", "4", "5", "6", "7", "8", "9">>

Digits == {DigitChars[i] : i \in 1..10}

IsDigit(c) == c \in Digits

DigitValue(c) == (CHOOSE i \in 1..10 : DigitChars[i] = c) - 1

\* JavaScript undefined, as the value of a missing field
Undefined == <<"undefined">>

\* Number(s) for a string of decimal digits
RECURSIVE Number(_)
Number(s) ==
  IF s = <<>> THEN 0
  ELSE Number(SubSeq(s, 1, Len(s) - 1)) * 10 + DigitValue(s[Len(s)])

\* `${n}` for a non-negative integer
RECURSIVE ToText(_)
ToText(n) ==
  IF n < 10 THEN <<DigitChars[n + 1]>>
  ELSE ToText(n \div 10) \o <<DigitChars[(n % 10) + 1]>>

\* `${major}.${minor}.${patch}`
VersionText(major, minor, patch) ==
  ToText(major) \o <<".">> \o ToText(minor) \o <<".">> \o ToText(patch)

\* length of the longest run of digits of s that starts at index i  (\d+)
RECURSIVE DigitRun(_, _)
DigitRun(s, i) ==
  IF i <= Len(s) /\ IsDigit(s[i]) THEN 1 + DigitRun(s, i + 1) ELSE 0

\* length of the longest run of white space of s that starts at index i (\s*)
RECURSIVE SpaceRun(_, _)
SpaceRun(s, i) ==
  IF i <= Len(s) /\ s[i] \in {" ", "\t", "\n"} THEN 1 + SpaceRun(s, i + 1) ELSE 0

\* the number of digits of a match of \.\d+ at index d (0: no match)
DotDigits(s, d) ==
  IF d <= Len(s) /\ s[d] = "." THEN DigitRun(s, d + 1) ELSE 0

NoTriple(i) ==
  [ok |-> FALSE, from |-> i, to |-> i, g1 |-> <<>>, g2 |-> <<>>, g3 |-> <<>>]

\* the match whose first two runs end before the dots at d1 and d2, with n3
\* digits in the third run
TripleGroups(s, i, d1, d2, n3) ==
  IF n3 > 0
  THEN [ok |-> TRUE, from |-> i, to |-> d2 + n3,
        g1 |-> SubSeq(s, i, d1 - 1),
        g2 |-> SubSeq(s, d1 + 1, d2 - 1),
        g3 |-> SubSeq(s, d2 + 1, d2 + n3)]
  ELSE NoTriple(i)

TripleAfterSecond(s, i, d1, n2) ==
  IF n2 > 0
  THEN TripleGroups(s, i, d1, d1 + 1 + n2, DotDigits(s, d1 + 1 + n2))
  ELSE NoTriple(i)

TripleAfterFirst(s, i, n1) ==
  IF n1 > 0 THEN TripleAfterSecond(s, i, i + n1, DotDigits(s, i + n1))
  ELSE NoTriple(i)

\* the match of \d+\.\d+\.\d+ that starts at index i; greedy, and since a
\* digit is never a dot there is nothing to backtrack to
MatchTriple(s, i) == TripleAfterFirst(s, i, DigitRun(s, i))

\* case folding of the /i flag, for the letters of "version"
ToLower(c) ==
  CASE c = "V" -> "v" [] c = "E" -> "e" [] c = "R" -> "r" [] c = "S" -> "s"
    [] c = "I" -> "i" [] c = "O" -> "o" [] c = "N" -> "n" [] OTHER -> c

\* ------------------------------------------------------------------------
\* Results of calls: a value, or the error the call throws
\* ------------------------------------------------------------------------

Ok(v) == [err |-> "none", val |-> v]

Throw(e) == [err |-> e, val |-> <<>>]

\* is s a JSON number literal: n1 digits without a leading zero, optionally a
\* dot and n2 digits
IsNumberLiteral(s, n1, n2) ==
  /\ n1 > 0
  /\ (n1 > 1 => s[1] # "0")
  /\ \/ n1 = Len(s)
     \/ n2 > 0 /\ n1 + 1 + n2 = Len(s)

ParseText(s, n1) ==
  IF IsNumberLiteral(s, n1, DotDigits(s, n1 + 1))
  THEN Ok([name |-> Undefined, version |-> Undefined])
  ELSE Throw("SyntaxError")

\* JSON.parse of a file's content.  A "json" file parses to the value it
\* serializes; a text parses only when it is a JSON number literal (digits,
\* optionally with one fraction), whose properties are all undefined.
JSONparse(file) ==
  IF file.kind = "json" THEN Ok(file.val)
  ELSE ParseText(file.chars, DigitRun(file.chars, 1))

\* JSON.stringify(val, null, 2) written to a file
JSONstringify(val) == [kind |-> "json", val |-> val]

\* ------------------------------------------------------------------------
\* VersionManager: pure helpers
\* ------------------------------------------------------------------------

\* Number of each capture group of a match
GroupNumbers(m) == <<Number(m.g1), Number(m.g2), Number(m.g3)>>

\* `${major}.${minor}.${patch}` of a triple of numbers
Reprinted(n) == VersionText(n[1], n[2], n[3])

\* the outcome of ensureSemanticVersion for the match of its pattern
FromMatch(match, length) ==
  IF match.ok /\ match.to = length THEN Ok(Reprinted(GroupNumbers(match)))
  ELSE Throw("InvalidSemanticVersion")

\* ensureSemanticVersion: /^(\d+)\.(\d+)\.(\d+)$/, then re-printed from Number
ensureSemanticVersion(version) ==
  IF version = Undefined THEN Throw("TypeError")
  ELSE FromMatch(MatchTriple(version, 1), Len(version))

\* v.split('.').map(Number) of a SemanticVersion
SplitNumbers(v) == GroupNumbers(MatchTriple(v, 1))

\* a variant that stops at the minor component
CompareNumbersToMinor(a, b) ==
  IF a[1] # b[1] THEN (IF a[1] > b[1] THEN 1 ELSE -1)
  ELSE IF a[2] # b[2] THEN (IF a[2] > b[2] THEN 1 ELSE -1)
  ELSE 0

\* the comparison of [ma1, mi1, pa1] with [ma2, mi2, pa2]
CompareNumbers(a, b) ==
  IF a[1] # b[1] THEN (IF a[1] > b[1] THEN 1 ELSE -1)
  ELSE IF a[2] # b[2] THEN (IF a[2] > b[2] THEN 1 ELSE -1)
  ELSE IF a[3] # b[3] THEN (IF a[3] > b[3] THEN 1 ELSE -1)
  ELSE 0

compareVersions(v1, v2) == CompareNumbers(SplitNumbers(v1), SplitNumbers(v2))

isVersionGreaterOrEqual(v1, v2) == compareVersions(v1, v2) >= 0

\* pkgData.version of the parsed manifest, validated
VersionField(pkgData) ==
  IF pkgData.err # "none" THEN pkgData
  ELSE ensureSemanticVersion(pkgData.val.version)

\* getCurrentVersion: the manifest's version field, validated
getCurrentVersion(manifest) ==
  IF manifest.kind = "absent" THEN Throw("IOError")
  ELSE VersionField(JSONparse(manifest))

\* readLog: an absent log file reads as an empty history; a file that is not
\* JSON, or whose value has no array under "history", is refused
readLog(file) ==
  IF file.kind = "absent" THEN Ok([history |-> <<>>])
  ELSE IF file.kind = "text" THEN Throw("InvalidLogJSON")
  ELSE IF "history" \notin DOMAIN file.val THEN Throw("InvalidLogStructure")
  ELSE Ok(file.val)

\* validateAndRepairLog: the loop over log.history, from index i (1-based)
\* with prev the previous validated version (Undefined for null);
\* validateEntry is its body for the entry whose validated version is given
RECURSIVE validateFrom(_, _, _)
RECURSIVE validateEntry(_, _, _, _)
\* a variant that reports the position of the entry before the offending one
validateEntryBefore(history, i, prev, validated) ==
  IF validated.err # "none"
  THEN [err |-> validated.err, val |-> <<>>, pos |-> i - 1]
  ELSE IF prev # Undefined /\ ~isVersionGreaterOrEqual(validated.val, prev)
  THEN [err |-> "HistoricalRegression", val |-> <<>>, pos |-> i - 2]
  ELSE validateFrom(
         [history EXCEPT ![i] = [@ EXCEPT !.version = validated.val]],
         i + 1, validated.val)

validateEntry(history, i, prev, validated) ==
  IF validated.err # "none"
  THEN [err |-> validated.err, val |-> <<>>, pos |-> i - 1]
  ELSE IF prev # Undefined /\ ~isVersionGreaterOrEqual(validated.val, prev)
  THEN [err |-> "HistoricalRegression", val |-> <<>>, pos |-> i - 1]
  ELSE validateFrom(
         [history EXCEPT ![i] = [@ EXCEPT !.version = validated.val]],
         i + 1, validated.val)

validateFrom(history, i, prev) ==
  IF i > Len(history) THEN [err |-> "none", val |-> history, pos |-> 0]
  ELSE validateEntry(history, i, prev, ensureSemanticVersion(history[i].version))

\* the log with its history replaced by the validated one
Repaired(log, r) ==
  IF r.err # "none" THEN [err |-> r.err, val |-> <<>>, pos |-> r.pos]
  ELSE [err |-> "none", val |-> [log EXCEPT !.history = r.val], pos |-> 0]

validateAndRepairLog(log) ==
  Repaired(log, validateFrom(log.history, 1, Undefined))

\* validateAndRepairLog of what readLog returned
Validated(log) ==
  IF log.err # "none" THEN [err |-> log.err, val |-> <<>>, pos |-> 0]
  ELSE validateAndRepairLog(log.val)

\* readLog followed by validateAndRepairLog, as every read path does
loadLog(file) == Validated(readLog(file))

\* log.history[log.history.length - 1]?.version
latestOf(log) ==
  IF Len(log.history) = 0 THEN Undefined
  ELSE log.history[Len(log.history)].version

\* ------------------------------------------------------------------------
\* VersionManager: the ledger operations, as functions of the files read.
\* Each returns the error thrown ("none" on success), the log file as the
\* call leaves it, and whether storage.writeFile was called on the log.
\* ------------------------------------------------------------------------

Ledger(e, file, w) == [err |-> e, file |-> file, wrote |-> w]

\* a variant that writes a log holding the new entry alone
pushAndWriteAlone(log, version, now, notes) ==
  JSONstringify([log EXCEPT !.history =
     <<[version |-> version, timestamp |-> now, notes |-> notes]>>])

\* log.history.push(entry); storage.writeFile(versionLogPath, JSON.stringify(log))
pushAndWrite(log, version, now, notes) ==
  JSONstringify([log EXCEPT !.history =
     Append(@, [version |-> version, timestamp |-> now, notes |-> notes])])

\* a variant that returns silently on a regression
reconcileSilent(currentVersion, log, file, now) ==
  IF currentVersion.err # "none" THEN Ledger(currentVersion.err, file, FALSE)
  ELSE IF log.err # "none" THEN Ledger(log.err, file, FALSE)
  ELSE IF latestOf(log.val) = Undefined
  THEN Ledger("none",
         pushAndWrite(log.val, currentVersion.val, now, "Initial recorded version"),
         TRUE)
  ELSE IF compareVersions(currentVersion.val, latestOf(log.val)) > 0
  THEN Ledger("none",
         pushAndWrite(log.val, currentVersion.val, now, "Detected a new version"),
         TRUE)
  ELSE Ledger("none", file, FALSE)

\* a variant that records the current version whenever it is >= the latest
reconcileAgain(currentVersion, log, file, now) ==
  IF currentVersion.err # "none" THEN Ledger(currentVersion.err, file, FALSE)
  ELSE IF log.err # "none" THEN Ledger(log.err, file, FALSE)
  ELSE IF latestOf(log.val) = Undefined
  THEN Ledger("none",
         pushAndWrite(log.val, currentVersion.val, now, "Initial recorded version"),
         TRUE)
  ELSE IF ~isVersionGreaterOrEqual(currentVersion.val, latestOf(log.val))
  THEN Ledger("VersionRegression", file, FALSE)
  ELSE Ledger("none",
         pushAndWrite(log.val, currentVersion.val, now, "Detected a new version"),
         TRUE)

\* the body of ensureCurrentVersionValid, for the outcomes of
\* getCurrentVersion and of readLog with validateAndRepairLog
reconcile(currentVersion, log, file, now) ==
  IF currentVersion.err # "none" THEN Ledger(currentVersion.err, file, FALSE)
  ELSE IF log.err # "none" THEN Ledger(log.err, file, FALSE)
  ELSE IF latestOf(log.val) = Undefined
  THEN Ledger("none",
         pushAndWrite(log.val, currentVersion.val, now, "Initial recorded version"),
         TRUE)
  ELSE IF ~isVersionGreaterOrEqual(currentVersion.val, latestOf(log.val))
  THEN IF compareVersions(currentVersion.val, latestOf(log.val)) < 0
       THEN Ledger("VersionRegression", file, FALSE)
       ELSE Ledger("none", file, FALSE)
  ELSE IF compareVersions(currentVersion.val, latestOf(log.val)) > 0
  THEN Ledger("none",
         pushAndWrite(log.val, currentVersion.val, now, "Detected a new version"),
         TRUE)
  ELSE Ledger("none", file, FALSE)

ensureCurrentVersionValid(manifest, file, now) ==
  reconcile(getCurrentVersion(manifest), loadLog(file), file, now)

\* a variant without the regression check
recordUnchecked(currentVersion, log, file, now, notes) ==
  IF currentVersion.err # "none" THEN Ledger(currentVersion.err, file, FALSE)
  ELSE IF log.err # "none" THEN Ledger(log.err, file, FALSE)
  ELSE IF latestOf(log.val) = currentVersion.val
  THEN Ledger("DuplicateVersion", file, FALSE)
  ELSE Ledger("none", pushAndWrite(log.val, currentVersion.val, now, notes), TRUE)

\* a variant without the duplicate check
recordTwice(currentVersion, log, file, now, notes) ==
  IF currentVersion.err # "none" THEN Ledger(currentVersion.err, file, FALSE)
  ELSE IF log.err # "none" THEN Ledger(log.err, file, FALSE)
  ELSE IF /\ latestOf(log.val) # Undefined
          /\ ~isVersionGreaterOrEqual(currentVersion.val, latestOf(log.val))
  THEN Ledger("VersionRegression", file, FALSE)
  ELSE Ledger("none", pushAndWrite(log.val, currentVersion.val, now, notes), TRUE)

\* the body of addCurrentVersion, for the outcomes of getCurrentVersion and
\* of readLog with validateAndRepairLog
record(currentVersion, log, file, now, notes) ==
  IF currentVersion.err # "none" THEN Ledger(currentVersion.err, file, FALSE)
  ELSE IF log.err # "none" THEN Ledger(log.err, file, FALSE)
  ELSE IF /\ latestOf(log.val) # Undefined
          /\ ~isVersionGreaterOrEqual(currentVersion.val, latestOf(log.val))
  THEN Ledger("VersionRegression", file, FALSE)
  ELSE IF latestOf(log.val) = currentVersion.val
  THEN Ledger("DuplicateVersion", file, FALSE)
  ELSE Ledger("none", pushAndWrite(log.val, currentVersion.val, now, notes), TRUE)

addCurrentVersion(manifest, file, now, notes) ==
  record(getCurrentVersion(manifest), loadLog(file), file, now, notes)

\* the validated history, or the error
HistoryOf(log) ==
  IF log.err # "none" THEN Throw(log.err) ELSE Ok(log.val.history)

\* a variant that returns the history as readLog read it
listHistoryUnrepaired(file) == HistoryOf(readLog(file))

\* listHistory: the validated history, or the error
listHistory(file) == HistoryOf(loadLog(file))

\* nothing, or the error
Checked(log) ==
  IF log.err # "none" THEN Throw(log.err) ELSE Ok(<<>>)

\* validateHistory: returns nothing, or throws
validateHistory(file) == Checked(loadLog(file))

Levels == {"patch", "minor", "major"}

\* a variant whose minor and major bumps keep the lower components
RaisedKeeping(n, level) ==
  IF level = "patch" THEN VersionText(n[1], n[2], n[3] + 1)
  ELSE IF level = "minor" THEN VersionText(n[1], n[2] + 1, n[3])
  ELSE VersionText(n[1] + 1, n[2], n[3])

\* a variant whose patch bump does not read the patch component
RaisedFromZero(n, level) ==
  IF level = "patch" THEN VersionText(n[1], n[2], 1)
  ELSE IF level = "minor" THEN VersionText(n[1], n[2] + 1, 0)
  ELSE VersionText(n[1] + 1, 0, 0)

\* [ma, mi, pa] raised at the level
Raised(n, level) ==
  IF level = "patch" THEN VersionText(n[1], n[2], n[3] + 1)
  ELSE IF level = "minor" THEN VersionText(n[1], n[2] + 1, 0)
  ELSE VersionText(n[1] + 1, 0, 0)

\* latest version || '0.0.0'
LatestOrZero(log) ==
  IF latestOf(log) = Undefined THEN <<"0", ".", "0", ".", "0">> ELSE latestOf(log)

Recommended(log, level) ==
  IF log.err # "none" THEN Throw(log.err)
  ELSE Ok(Raised(SplitNumbers(LatestOrZero(log.val)), level))

recommendNextVersion(file, level) == Recommended(loadLog(file), level)

\* ------------------------------------------------------------------------
\* The semver package, as project-ref-updater.ts uses it (strict mode):
\*   ^v?(0|[1-9]\d*)\.(0|[1-9]\d*)\.(0|[1-9]\d*)(-prerelease)?$
\* with a pre-release tag of lower-case letters, the only kind of tag the
\* texts of this model carry.
\* ------------------------------------------------------------------------

Letters == <<"a", "b", "c", "d", "e", "i", "n", "o", "r", "s", "v", "x">>

IsLetter(c) == \E i \in 1..Len(Letters) : Letters[i] = c

LetterRank(c) == CHOOSE i \in 1..Len(Letters) : Letters[i] = c

RECURSIVE LetterRun(_, _)
LetterRun(s, i) ==
  IF i <= Len(s) /\ IsLetter(s[i]) THEN 1 + LetterRun(s, i + 1) ELSE 0

\* 0|[1-9]\d*
NumericIdentifier(g) == Len(g) = 1 \/ g[1] # "0"

NotSemver ==
  [ok |-> FALSE, major |-> 0, minor |-> 0, patch |-> 0, pre |-> <<>>]

\* the parsed version, for the match m of the main version and np letters of
\* a pre-release tag behind it
Parsed(version, m, np) ==
  IF (IF np > 0 THEN m.to + 1 + np ELSE m.to) # Len(version) THEN NotSemver
  ELSE IF ~(/\ NumericIdentifier(m.g1)
            /\ NumericIdentifier(m.g2)
            /\ NumericIdentifier(m.g3))
  THEN NotSemver
  ELSE [ok |-> TRUE, major |-> Number(m.g1), minor |-> Number(m.g2),
        patch |-> Number(m.g3),
        pre |-> SubSeq(version, m.to + 2, m.to + 1 + np)]

\* the number of letters of a pre-release tag behind the match m
PreLetters(version, m) ==
  IF m.to < Len(version) /\ version[m.to + 1] = "-"
  THEN LetterRun(version, m.to + 2) ELSE 0

ParsedFrom(version, m) ==
  IF ~m.ok THEN NotSemver ELSE Parsed(version, m, PreLetters(version, m))

semverParse(version) ==
  IF version = Undefined THEN NotSemver
  ELSE ParsedFrom(version,
         MatchTriple(version, IF Len(version) > 0 /\ version[1] = "v" THEN 2 ELSE 1))

\* semver.valid(v) is not null
semverValid(version) == semverParse(version).ok

\* a < b for two pre-release identifiers made of letters (ASCII order)
RECURSIVE LettersLess(_, _)
LettersLess(a, b) ==
  IF b = <<>> THEN FALSE
  ELSE IF a = <<>> THEN TRUE
  ELSE IF a[1] # b[1] THEN LetterRank(a[1]) < LetterRank(b[1])
  ELSE LettersLess(Tail(a), Tail(b))

\* compareMain, then comparePre, of two parsed versions
ParsedLess(a, b) ==
  IF a.major # b.major THEN a.major < b.major
  ELSE IF a.minor # b.minor THEN a.minor < b.minor
  ELSE IF a.patch # b.patch THEN a.patch < b.patch
  ELSE IF a.pre # <<>> /\ b.pre = <<>> THEN TRUE
  ELSE IF a.pre = <<>> THEN FALSE
  ELSE LettersLess(a.pre, b.pre)

\* semver.lt(a, b)
semverLt(v1, v2) == ParsedLess(semverParse(v1), semverParse(v2))

\* ------------------------------------------------------------------------
\* ProjectRefUpdater: the two update strategies
\* ------------------------------------------------------------------------

\* json.version || null (Undefined stands for null as well; the empty string
\* is falsy)
VersionOrNull(json) ==
  IF json.err # "none" THEN json
  ELSE IF json.val.version = <<>> THEN Ok(Undefined)
  ELSE Ok(json.val.version)

\* PackageJsonUpdateStrategy.detectVersion
PackageJsonDetectVersion(file) == VersionOrNull(JSONparse(file))

\* PackageJsonUpdateStrategy.replaceVersion: parses, assigns json.version and
\* returns json.version, which the caller writes to the file as its content
PackageJsonReplaceVersion(file, newVersion) ==
  [kind |-> "text",
   chars |-> [JSONparse(file).val EXCEPT !.version = newVersion].version]

\* /(?:version\s*[:=]\s*|v)(\d+\.\d+\.\d+)/i tried at index i
VersionWord == <<"v", "e", "r", "s", "i", "o", "n">>

NoMatch == [ok |-> FALSE, from |-> 0, to |-> 0, group |-> <<>>]

\* the match that starts at index i and whose group is the triple m
Captured(s, i, m) ==
  IF m.ok
  THEN [ok |-> TRUE, from |-> i, to |-> m.to, group |-> SubSeq(s, m.from, m.to)]
  ELSE NoMatch

\* the second alternative: v, then the triple
ShortForm(s, i) ==
  IF ToLower(s[i]) = "v" THEN Captured(s, i, MatchTriple(s, i + 1)) ELSE NoMatch

\* the first alternative behind the word: white space ending before index
\* sep, one of : and =, white space, then the triple
LongFormAt(s, i, sep) ==
  IF sep <= Len(s) /\ s[sep] \in {":", "="}
  THEN Captured(s, i, MatchTriple(s, sep + 1 + SpaceRun(s, sep + 1)))
  ELSE NoMatch

LongForm(s, i) ==
  IF /\ i + 6 <= Len(s)
     /\ \A k \in 1..7 : ToLower(s[i + k - 1]) = VersionWord[k]
  THEN LongFormAt(s, i, i + 7 + SpaceRun(s, i + 7))
  ELSE NoMatch

\* the first alternative that matches
OrElse(first, s, i) == IF first.ok THEN first ELSE ShortForm(s, i)

MatchPatternAt(s, i) == OrElse(LongForm(s, i), s, i)

\* the first (leftmost) match of the pattern in s, searched from index i
RECURSIVE FirstMatchFrom(_, _)
RECURSIVE FirstMatchOr(_, _, _)
FirstMatchOr(here, s, i) ==
  IF here.ok THEN here ELSE FirstMatchFrom(s, i + 1)

FirstMatchFrom(s, i) ==
  IF i > Len(s) THEN NoMatch ELSE FirstMatchOr(MatchPatternAt(s, i), s, i)

FirstMatch(s) == FirstMatchFrom(s, 1)

\* match ? match[1] : null
GroupOrNull(match) == IF match.ok THEN Ok(match.group) ELSE Ok(Undefined)

\* ReadmeUpdateStrategy.detectVersion
ReadmeDetectVersion(file) == GroupOrNull(FirstMatch(file.chars))

\* content.replace(pattern, `$1${newVersion}`) for the first match of the
\* pattern.  The replacement text is "$1" followed by newVersion: with one
\* capture group, "$1" followed by a digit still denotes group 1, so the
\* match (marker included) is replaced by the captured digits followed by
\* newVersion.
Replaced(s, match, newVersion) ==
  IF ~match.ok THEN s
  ELSE SubSeq(s, 1, match.from - 1)
       \o match.group \o newVersion
       \o SubSeq(s, match.to + 1, Len(s))

\* ReadmeUpdateStrategy.replaceVersion
ReadmeReplaceVersion(file, newVersion) ==
  [kind |-> "text", chars |-> Replaced(file.chars, FirstMatch(file.chars), newVersion)]

\* ------------------------------------------------------------------------
\* ProjectRefUpdater.detectAndUpdateVersion
\* ------------------------------------------------------------------------

\* the registry: Object.keys(this.strategies), in insertion order
Registry == <<"package.json", "README.md">>

DetectVersion(name, file) ==
  IF name = "package.json" THEN PackageJsonDetectVersion(file)
  ELSE ReadmeDetectVersion(file)

ReplaceVersion(name, file, newVersion) ==
  IF name = "package.json" THEN PackageJsonReplaceVersion(file, newVersion)
  ELSE ReadmeReplaceVersion(file, newVersion)

\* a variant of the callback that writes whenever the detected version is
\* valid and differs from newVersion
UpdatedWhenDifferent(name, file, newVersion, oldVersion) ==
  IF oldVersion.err # "none"
  THEN [err |-> oldVersion.err, file |-> file, update |-> <<>>]
  ELSE IF /\ oldVersion.val # Undefined
          /\ semverValid(oldVersion.val)
          /\ \/ semverLt(oldVersion.val, newVersion)
             \/ semverLt(newVersion, oldVersion.val)
  THEN [err |-> "none",
        file |-> ReplaceVersion(name, file, newVersion),
        update |-> <<[filePath |-> name, oldVersion |-> oldVersion.val,
                      newVersion |-> newVersion]>>]
  ELSE [err |-> "none", file |-> file, update |-> <<>>]

\* the callback behind strategy.detectVersion(fileData): optionally write.
\* `update` is the FileUpdate it resolves to, or <<>> for null.
Updated(name, file, newVersion, oldVersion) ==
  IF oldVersion.err # "none"
  THEN [err |-> oldVersion.err, file |-> file, update |-> <<>>]
  ELSE IF /\ oldVersion.val # Undefined
          /\ semverValid(oldVersion.val)
          /\ semverLt(oldVersion.val, newVersion)
  THEN [err |-> "none",
        file |-> ReplaceVersion(name, file, newVersion),
        update |-> <<[filePath |-> name, oldVersion |-> oldVersion.val,
                      newVersion |-> newVersion]>>]
  ELSE [err |-> "none", file |-> file, update |-> <<>>]

\* a variant of the callback without the try/catch around readFile: a file
\* that does not exist rejects the callback
FileTaskThrowing(name, file, newVersion) ==
  IF file.kind = "absent" THEN [err |-> "IOError", file |-> file, update |-> <<>>]
  ELSE Updated(name, file, newVersion, DetectVersion(name, file))

\* one callback of filesToUpdate.map: read, detect, optionally write
FileTask(name, file, newVersion) ==
  IF file.kind = "absent" THEN [err |-> "none", file |-> file, update |-> <<>>]
  ELSE Updated(name, file, newVersion, DetectVersion(name, file))

\* Promise.all of the two callbacks.  They run as independent promises: when
\* one rejects the call rejects with its error, and the other callback still
\* runs to its end, so its write is applied.
Settled(t1, t2) ==
  IF t1.err # "none"
  THEN [err |-> t1.err, pkg |-> t1.file, readme |-> t2.file, updates |-> <<>>]
  ELSE IF t2.err # "none"
  THEN [err |-> t2.err, pkg |-> t1.file, readme |-> t2.file, updates |-> <<>>]
  ELSE [err |-> "none", pkg |-> t1.file, readme |-> t2.file,
        updates |-> t1.update \o t2.update]

detectAndUpdateVersion(newVersion, manifest, doc) ==
  IF ~semverValid(newVersion)
  THEN [err |-> "InvalidSemanticVersion", pkg |-> manifest, readme |-> doc,
        updates |-> <<>>]
  ELSE Settled(FileTask(Registry[1], manifest, newVersion),
               FileTask(Registry[2], doc, newVersion))

\* ------------------------------------------------------------------------
\* VersionManager.incrementVersion
\* ------------------------------------------------------------------------

\* the outcome of the call, for the files the synchronizer left and the
\* outcome of addCurrentVersion
Incremented(sync, add) ==
  [err |-> add.err, pkg |-> sync.pkg, readme |-> sync.readme,
   file |-> add.file, wrote |-> add.wrote]

\* a variant that records the version even when no file was updated
AfterUpdatesUnchecked(sync, file, now, notes) ==
  IF sync.err # "none"
  THEN [err |-> sync.err, pkg |-> sync.pkg, readme |-> sync.readme,
        file |-> file, wrote |-> FALSE]
  ELSE Incremented(sync, addCurrentVersion(sync.pkg, file, now, notes))

\* the call from the return of detectAndUpdateVersion on
AfterUpdates(sync, file, now, notes) ==
  IF sync.err # "none"
  THEN [err |-> sync.err, pkg |-> sync.pkg, readme |-> sync.readme,
        file |-> file, wrote |-> FALSE]
  ELSE IF Len(sync.updates) = 0
  THEN [err |-> "NoReferencesUpdated", pkg |-> sync.pkg, readme |-> sync.readme,
        file |-> file, wrote |-> FALSE]
  ELSE Incremented(sync, addCurrentVersion(sync.pkg, file, now, notes))

\* the call from the return of recommendNextVersion on
AfterRecommend(newVersion, manifest, file, doc, now, notes) ==
  IF newVersion.err # "none"
  THEN [err |-> newVersion.err, pkg |-> manifest, readme |-> doc,
        file |-> file, wrote |-> FALSE]
  ELSE AfterUpdates(detectAndUpdateVersion(newVersion.val, manifest, doc),
                    file, now, notes)

incrementVersion(manifest, file, doc, level, now, notes) ==
  AfterRecommend(recommendNextVersion(file, level), manifest, file, doc, now, notes)

\* ------------------------------------------------------------------------
\* The inputs of the model
\* ------------------------------------------------------------------------

\* the canonical versions of hand edits: 1.0.0, 0.1.0, 1.1.0, 0.0.1, 1.0.1, ...
VersionAt(i) == VersionText((i + 1) % 2, ((i + 1) \div 2) % 2, (i + 1) \div 4)

Versions == {VersionAt(i) : i \in 0..(NumVersions - 1)}

\* "01.0.0": accepted and normalized by ensureSemanticVersion
PaddedVersion == <<"0", "1", ".", "0", ".", "0">>

\* "0.1.1": a version with a patch, as an earlier bump has logged it
PatchedVersion == VersionText(0, 1, 1)

\* "1.0": not a version
ShortVersion == <<"1", ".", "0">>

\* what a hand edit may put in the manifest's version field
ManifestTexts == Versions \cup {PaddedVersion, ShortVersion}

Absent == [kind |-> "absent"]

Manifest(version) ==
  JSONstringify([name |-> <<"o", "a", "2", "m", "d">>, version |-> version])

SeedEntry(version, i) == [version |-> version, timestamp |-> i, notes |-> "seed"]

\* the logs that may exist before the first call: absent, or any log that
\* validateAndRepairLog accepts
LogTexts == Versions \cup {PaddedVersion, PatchedVersion}

\* entries stamped 1, 2, ... in the order they were written
SeedHistories ==
  {[i \in 1..Len(h) |-> SeedEntry(h[i], i)] :
     h \in UNION {[1..n -> LogTexts] : n \in 0..MaxInitLog}}

InitLogs ==
  {Absent} \cup
  {f \in {JSONstringify([history |-> h]) : h \in SeedHistories} :
     loadLog(f).err = "none"}

\* the logs that validateAndRepairLog refuses for their order: some entry is
\* below the entry before it
BadHistories ==
  {[i \in 1..Len(h) |-> SeedEntry(h[i], i)] :
     h \in UNION {[1..n -> Versions \cup {PatchedVersion}] : n \in 2..MaxBadLog}}

BadLogs ==
  {f \in {JSONstringify([history |-> h]) : h \in BadHistories} :
     loadLog(f).err = "HistoricalRegression"}

Text(chars) == [kind |-> "text", chars |-> chars]

\* the free-text file of the project the ledger runs on: "version: 0.1.0"
InitReadmes ==
  {Text(<<"v", "e", "r", "s", "i", "o", "n", ":", " ">> \o VersionAt(1))}

\* the free-text files the synchronizer is tried on: none,
\* "version: X", "Version =X", "vX", "see X" (no marker), "dev X" (a "v" that
\* marks nothing) and "VX vY" (two marked versions)
SyncReadmes ==
  {Absent} \cup
  UNION {{Text(<<"v", "e", "r", "s", "i", "o", "n", ":", " ">> \o x),
          Text(<<"V", "e", "r", "s", "i", "o", "n", " ", "=">> \o x \o <<".">>),
          Text(<<"v">> \o x),
          Text(<<"s", "e", "e", " ">> \o x),
          Text(<<"d", "e", "v", " ">> \o x),
          Text(<<"V">> \o x \o <<" ", "v">> \o VersionAt(0))} :
         x \in {VersionAt(1), PaddedVersion}}

\* the notes a caller passes
Notes == {"cli"}

\* the versions a caller may ask the synchronizer for: canonical ones, one
\* with a leading "v", one with a pre-release tag, one that is no version
SyncTargets ==
  Versions \cup {<<"v">> \o VersionAt(3), VersionAt(3) \o <<"-", "b">>, ShortVersion}

\* ------------------------------------------------------------------------
\* The state machine.  `last` records the last call: its name, arguments,
\* the error it threw ("none" for a normal return), whether it wrote the
\* log, what it returned, and `repeat`: whether the call repeats the call
\* before it, which returned normally, with nothing in between
\*   "afterWrite", "afterNoWrite"  a second ensureCurrentVersionValid, after
\*                                 one that wrote / did not write the log
\*   "again"                       a second detectAndUpdateVersion with the
\*                                 same newVersion
\* ------------------------------------------------------------------------

Repeats(op, target) ==
  IF last.op # op \/ last.err # "none" THEN "no"
  ELSE IF op = "ensureCurrentVersionValid"
  THEN (IF last.wrote THEN "afterWrite" ELSE "afterNoWrite")
  ELSE IF op = "detectAndUpdateVersion" /\ last.target = target THEN "again"
  ELSE "no"

Call(op, level, target, err, wrote, ret) ==
  [op |-> op, level |-> level, target |-> target, err |-> err, wrote |-> wrote,
   ret |-> ret, repeat |-> Repeats(op, target)]

\* no invocation is in progress: every call runs alone, from start to end
NoProcs == <<>>

NoCall ==
  [op |-> "none", level |-> "none", target |-> <<>>, err |-> "none",
   wrote |-> FALSE, ret |-> <<>>, repeat |-> "no"]

Init ==
  /\ pkg \in {Manifest(t) : t \in ManifestTexts}
  /\ logf \in InitLogs
  /\ readme \in InitReadmes
  /\ clock = Len(readLog(logf).val.history) + 1
  /\ last = NoCall
  /\ procs = NoProcs

\* someone edits the version field of the manifest by hand
EditManifest(t) ==
  /\ pkg.kind = "json"
  /\ pkg.val.version # t
  /\ pkg' = [pkg EXCEPT !.val.version = t]
  /\ last' = Call("edit", "none", <<>>, "none", FALSE, <<>>)
  /\ UNCHANGED <<logf, readme, clock, procs>>

\* the clock advances when a call stamps a new entry
Tick(wrote) == clock' = IF wrote THEN clock + 1 ELSE clock

GetCurrentVersion ==
  \E r \in {getCurrentVersion(pkg)} :
      /\ last' = Call("getCurrentVersion", "none", <<>>, r.err, FALSE, r.val)
      /\ UNCHANGED <<pkg, logf, readme, clock, procs>>

EnsureCurrentVersionValid ==
  \E r \in {ensureCurrentVersionValid(pkg, logf, clock)} :
      /\ logf' = r.file
      /\ Tick(r.wrote)
      /\ last' = Call("ensureCurrentVersionValid", "none", <<>>, r.err, r.wrote, <<>>)
      /\ UNCHANGED <<pkg, readme, procs>>

AddCurrentVersion(notes) ==
  \E r \in {addCurrentVersion(pkg, logf, clock, notes)} :
      /\ logf' = r.file
      /\ Tick(r.wrote)
      /\ last' = Call("addCurrentVersion", "none", <<>>, r.err, r.wrote, <<>>)
      /\ UNCHANGED <<pkg, readme, procs>>

\* a variant of listHistory that creates the log file it did not find
ListHistoryCreating ==
  \E r \in {listHistory(logf)} :
      /\ logf' = IF logf = Absent THEN JSONstringify([history |-> <<>>]) ELSE logf
      /\ last' = Call("listHistory", "none", <<>>, r.err, FALSE, r.val)
      /\ UNCHANGED <<pkg, readme, clock, procs>>

ListHistory ==
  \E r \in {listHistory(logf)} :
      /\ last' = Call("listHistory", "none", <<>>, r.err, FALSE, r.val)
      /\ UNCHANGED <<pkg, logf, readme, clock, procs>>

ValidateHistory ==
  \E r \in {validateHistory(logf)} :
      /\ last' = Call("validateHistory", "none", <<>>, r.err, FALSE, <<>>)
      /\ UNCHANGED <<pkg, logf, readme, clock, procs>>

RecommendNextVersion(level) ==
  \E r \in {recommendNextVersion(logf, level)} :
      /\ last' = Call("recommendNextVersion", level, <<>>, r.err, FALSE, r.val)
      /\ UNCHANGED <<pkg, logf, readme, clock, procs>>

DetectAndUpdateVersion(newVersion) ==
  \E r \in {detectAndUpdateVersion(newVersion, pkg, readme)} :
      /\ pkg' = r.pkg
      /\ readme' = r.readme
      /\ last' = Call("detectAndUpdateVersion", "none", newVersion, r.err, FALSE, r.updates)
      /\ UNCHANGED <<logf, clock, procs>>

IncrementVersion(level, notes) ==
  \E r \in {incrementVersion(pkg, logf, readme, level, clock, notes)} :
      /\ pkg' = r.pkg
      /\ readme' = r.readme
      /\ logf' = r.file
      /\ Tick(r.wrote)
      /\ last' = Call("incrementVersion", level, <<>>, r.err, r.wrote, <<>>)
      /\ UNCHANGED procs

\* the ledger, used by one caller at a time, with hand edits in between
Next ==
  \/ \E t \in ManifestTexts : EditManifest(t)
  \/ EnsureCurrentVersionValid
  \/ \E notes \in Notes : AddCurrentVersion(notes)
  \/ ListHistory
  \/ ValidateHistory
  \/ \E level \in Levels : RecommendNextVersion(level)
  \/ \E level \in Levels, notes \in Notes : IncrementVersion(level, notes)

Spec == Init /\ [][Next]_vars

\* the synchronizer alone, on a project that has no log yet
InitSync ==
  /\ pkg \in {Absent} \cup {Manifest(t) : t \in ManifestTexts}
  /\ logf = Absent
  /\ readme \in SyncReadmes
  /\ clock = 1
  /\ last = NoCall
  /\ procs = NoProcs

NextSync ==
  \/ \E t \in ManifestTexts : EditManifest(t)
  \/ GetCurrentVersion
  \/ \E newVersion \in SyncTargets : DetectAndUpdateVersion(newVersion)

SpecSync == InitSync /\ [][NextSync]_vars


\* the process dies inside incrementVersion after detectAndUpdateVersion has
\* returned or thrown and before addCurrentVersion starts
IncrementCrash(level) ==
  \E newVersion \in {recommendNextVersion(logf, level)} :
      /\ newVersion.err = "none"
      /\ \E r \in {detectAndUpdateVersion(newVersion.val, pkg, readme)} :
             /\ pkg' = r.pkg
             /\ readme' = r.readme
             /\ last' = Call("crash", level, newVersion.val, r.err, FALSE, r.updates)
             /\ UNCHANGED <<logf, clock, procs>>

\* the ledger on a project where things have gone wrong: the manifest may be
\* missing, the log on disk may be out of order, a bump may die half way
InitFaults ==
  /\ pkg \in {Absent} \cup {Manifest(t) : t \in ManifestTexts}
  /\ logf \in InitLogs \cup BadLogs
  /\ readme \in InitReadmes
  /\ clock = Len(readLog(logf).val.history) + 1
  /\ last = NoCall
  /\ procs = NoProcs

NextFaults ==
  \/ Next
  \/ \E level \in Levels : IncrementCrash(level)

SpecFaults == InitFaults /\ [][NextFaults]_vars

\* compareVersions is a public utility: it reads and writes no file
CompareVersions(v1, v2) ==
  \E r \in {compareVersions(v1, v2)} :
      /\ last' = Call("compareVersions", "none", <<v1, v2>>, "none", FALSE, r)
      /\ UNCHANGED <<pkg, logf, readme, clock, procs>>

\* the operations that only read, on any project: the manifest may be
\* missing or invalid, the log missing, valid or out of order
NextReads ==
  \/ GetCurrentVersion
  \/ ListHistory
  \/ ValidateHistory
  \/ \E level \in Levels : RecommendNextVersion(level)
  \/ \E v1 \in Versions, v2 \in Versions : CompareVersions(v1, v2)

SpecReads == InitFaults /\ [][NextReads]_vars

\* the versions compareVersions is tried on: components of one and of two
\* digits, a zero-padded text, and versions that differ in one component
CompareInputs ==
  {VersionText(x, y, z) : x \in {9, 10}, y \in {9, 10}, z \in {9, 10}}
    \cup {VersionText(0, 0, 0), VersionAt(0), PaddedVersion, PatchedVersion}

InitCompare ==
  /\ pkg = Absent
  /\ logf = Absent
  /\ readme = Absent
  /\ clock = 1
  /\ last = NoCall
  /\ procs = NoProcs

NextCompare == \E v1 \in CompareInputs, v2 \in CompareInputs : CompareVersions(v1, v2)

SpecCompare == InitCompare /\ [][NextCompare]_vars

\* ------------------------------------------------------------------------
\* Vocabulary of the properties
\* ------------------------------------------------------------------------

\* the sequence of entries a log file persists (none when there is no file)
History(file) == IF file.kind = "json" THEN file.val.history ELSE <<>>

\* does the text match X.Y.Z with numeric components
IsVersionText(t) ==
  t # Undefined /\ MatchTriple(t, 1).ok /\ MatchTriple(t, 1).to = Len(t)

\* the (major, minor, patch) triple a version text denotes
TripleOf(t) ==
  <<Number(MatchTriple(t, 1).g1), Number(MatchTriple(t, 1).g2),
    Number(MatchTriple(t, 1).g3)>>

\* the order of triples: major first, then minor, then patch
TripleLess(a, b) ==
  \/ a[1] < b[1]
  \/ a[1] = b[1] /\ a[2] < b[2]
  \/ a[1] = b[1] /\ a[2] = b[2] /\ a[3] < b[3]

\* the canonical text of a triple
Canonical(a) == VersionText(a[1], a[2], a[3])

\* an entry as a value: its SemanticVersion, its time stamp, its notes
EntryValue(e) ==
  [version |-> TripleOf(e.version), timestamp |-> e.timestamp, notes |-> e.notes]

\* the entries of g start with the entries of h, in the same order
IsPrefix(h, g) ==
  /\ Len(h) <= Len(g)
  /\ \A i \in 1..Len(h) : EntryValue(g[i]) = EntryValue(h[i])

\* g is h followed by exactly one entry, whose version is the triple c in
\* canonical text
AppendsOne(h, g, c) ==
  /\ Len(g) = Len(h) + 1
  /\ IsPrefix(h, g)
  /\ g[Len(g)].version = Canonical(c)

\* the manifest is a structured document whose version field is a version
ManifestValid == pkg.kind = "json" /\ IsVersionText(pkg.val.version)

\* C, the manifest version, and L, the latest logged version
CurrentTriple == TripleOf(pkg.val.version)

LatestTriple == TripleOf(History(logf)[Len(History(logf))].version)

\* ------------------------------------------------------------------------
\* The ledger
\* ------------------------------------------------------------------------

\* C1: in every state reached from an absent or valid log by calls of
\* ensureCurrentVersionValid, addCurrentVersion and incrementVersion and hand
\* edits of the manifest's version, the versions of the persisted log are
\* non-decreasing in the (major, minor, patch) order.
LogNonDecreasing ==
  \A i \in 1..(Len(History(logf)) - 1) :
    ~TripleLess(TripleOf(History(logf)[i + 1].version),
                TripleOf(History(logf)[i].version))

\* a call was refused as a regression of the manifest below a log that the
\* calls have grown to two entries or more
RegressionRefused ==
  /\ last.op \in {"ensureCurrentVersionValid", "addCurrentVersion"}
  /\ last.err = "VersionRegression"
  /\ Len(History(logf)) >= 2

\* C2: the persisted log is append-only: across every call of the ledger,
\* successful or failed, the entries persisted before it are a prefix of the
\* entries persisted after it (an entry being its version triple, time stamp
\* and notes).
LogAppendOnly == [][IsPrefix(History(logf), History(logf'))]_vars

\* addCurrentVersion has appended to a log that already had entries
AppendedToHistory ==
  /\ last.op = "addCurrentVersion"
  /\ last.wrote
  /\ Len(History(logf)) >= 2

\* C3: ensureCurrentVersionValid, for a valid manifest version C and the
\* latest logged version L: empty history, the log becomes [C]; C < L, it
\* fails with VersionRegression and the log is unchanged; C > L, C is
\* appended as one new last entry; C = L, nothing is written.
EnsureFourCases ==
  [][(last'.op = "ensureCurrentVersionValid" /\ ManifestValid) =>
       IF History(logf) = <<>>
       THEN /\ last'.err = "none"
            /\ AppendsOne(<<>>, History(logf'), CurrentTriple)
       ELSE IF TripleLess(CurrentTriple, LatestTriple)
       THEN last'.err = "VersionRegression" /\ ~last'.wrote /\ logf' = logf
       ELSE IF TripleLess(LatestTriple, CurrentTriple)
       THEN /\ last'.err = "none"
            /\ AppendsOne(History(logf), History(logf'), CurrentTriple)
       ELSE last'.err = "none" /\ ~last'.wrote /\ logf' = logf]_vars

\* ensureCurrentVersionValid has recorded a version found ahead of the log
ExternalChangeRecorded ==
  /\ last.op = "ensureCurrentVersionValid"
  /\ last.err = "none"
  /\ last.wrote
  /\ Len(History(logf)) >= 2

\* C4: a second ensureCurrentVersionValid right after a successful one, with
\* no change in between, writes nothing and leaves the log as it is.
EnsureIdempotent ==
  [][last'.repeat \in {"afterWrite", "afterNoWrite"} =>
       /\ last'.err = "none"
       /\ ~last'.wrote
       /\ logf' = logf]_vars

\* the call was repeated right after a call that wrote the log
EnsureRepeatedAfterWrite ==
  last.op = "ensureCurrentVersionValid" /\ last.repeat = "afterWrite"

\* C5: addCurrentVersion, for a valid manifest version C and the latest
\* logged version L: C < L fails with VersionRegression, C = L fails with
\* DuplicateVersion, both leaving the log unchanged; otherwise (C > L, or no
\* history) exactly one entry with version C is appended.
AddThreeCases ==
  [][(last'.op = "addCurrentVersion" /\ ManifestValid) =>
       IF History(logf) # <<>> /\ TripleLess(CurrentTriple, LatestTriple)
       THEN last'.err = "VersionRegression" /\ ~last'.wrote /\ logf' = logf
       ELSE IF History(logf) # <<>> /\ CurrentTriple = LatestTriple
       THEN last'.err = "DuplicateVersion" /\ ~last'.wrote /\ logf' = logf
       ELSE /\ last'.err = "none"
            /\ AppendsOne(History(logf), History(logf'), CurrentTriple)]_vars

\* addCurrentVersion has refused a version that is already the latest
DuplicateRefused ==
  /\ last.op = "addCurrentVersion"
  /\ last.err = "DuplicateVersion"
  /\ ManifestValid

\* the version the bump of `level` starts from the history h asks for:
\* (M, N, P+1), (M, N+1, 0) or (M+1, 0, 0), from (0, 0, 0) when h is empty
BumpOf(h, level) ==
  LET base == IF h = <<>> THEN <<0, 0, 0>> ELSE TripleOf(h[Len(h)].version)
  IN  IF level = "patch" THEN <<base[1], base[2], base[3] + 1>>
      ELSE IF level = "minor" THEN <<base[1], base[2] + 1, 0>>
      ELSE <<base[1] + 1, 0, 0>>

\* C6: after every successful incrementVersion(level) the new last entry of
\* the log has the version recommendNextVersion(level) gave at the start of
\* the call, and the manifest's version field holds that version.
IncrementRecordsRecommended ==
  [][(last'.op = "incrementVersion" /\ last'.err = "none") =>
       /\ AppendsOne(History(logf), History(logf'), BumpOf(History(logf), last'.level))
       /\ pkg'.kind = "json"
       /\ pkg'.val.version = Canonical(BumpOf(History(logf), last'.level))]_vars

\* ------------------------------------------------------------------------
\* The synchronizer
\* ------------------------------------------------------------------------

\* the FileUpdate records of a returned list that name the file
UpdatesOf(updates, name) ==
  {i \in 1..Len(updates) : updates[i].filePath = name}

\* the call that has just returned rewrote the file
Rewrote(name) ==
  /\ last'.op = "detectAndUpdateVersion"
  /\ last'.err = "none"
  /\ UpdatesOf(last'.ret, name) # {}

\* C7: after the structured-manifest strategy rewrites a manifest to
\* newVersion, the file is still a structured document, its version field is
\* newVersion, its other fields are unchanged, and getCurrentVersion on it
\* returns newVersion.
ManifestRewriteKeepsDocument ==
  [][Rewrote("package.json") =>
       /\ pkg'.kind = "json"
       /\ pkg' = [pkg EXCEPT !.val.version = last'.target]
       /\ getCurrentVersion(pkg') = Ok(last'.target)]_vars

\* content with the digits of its first marked version replaced by newVersion
\* (marker and surrounding text kept)
VerbatimReplace(chars, newVersion) ==
  LET match == FirstMatch(chars)
  IN  SubSeq(chars, 1, match.to - Len(match.group))
      \o newVersion
      \o SubSeq(chars, match.to + 1, Len(chars))

\* C8: the free-text strategy replaces the matched version with the new
\* version text verbatim: the rewritten content is the original with the
\* matched digits replaced by newVersion, and detecting the version in it
\* yields newVersion.
ReadmeRewriteVerbatim ==
  [][Rewrote("README.md") =>
       /\ readme'.kind = "text"
       /\ readme'.chars = VerbatimReplace(readme.chars, last'.target)
       /\ ReadmeDetectVersion(readme') = Ok(last'.target)]_vars

\* the version a registry file embeds, per its type: the version field of a
\* structured document, the first marked version of a text
Embedded(name, file) ==
  IF file.kind = "absent" THEN Undefined
  ELSE IF name = "package.json"
  THEN (IF file.kind = "json" THEN file.val.version ELSE Undefined)
  ELSE (IF FirstMatch(file.chars).ok THEN FirstMatch(file.chars).group ELSE Undefined)

\* X.Y.Z with each component written without a leading zero
IsStrictVersionText(t) ==
  /\ IsVersionText(t)
  /\ t = Canonical(TripleOf(t))

\* the file exists and embeds a valid version strictly below newVersion
Behind(name, file, newVersion) ==
  /\ IsStrictVersionText(Embedded(name, file))
  /\ TripleLess(TripleOf(Embedded(name, file)), TripleOf(newVersion))

FileOf(name, manifest, doc) == IF name = "package.json" THEN manifest ELSE doc

\* the FileUpdate records of the files that are behind, in registry order
RECURSIVE ExpectedUpdates(_, _, _, _)
ExpectedUpdates(i, manifest, doc, newVersion) ==
  IF i > Len(Registry) THEN <<>>
  ELSE (IF Behind(Registry[i], FileOf(Registry[i], manifest, doc), newVersion)
        THEN <<[filePath |-> Registry[i],
                oldVersion |-> Embedded(Registry[i], FileOf(Registry[i], manifest, doc)),
                newVersion |-> newVersion]>>
        ELSE <<>>)
       \o ExpectedUpdates(i + 1, manifest, doc, newVersion)

\* C9: detectAndUpdateVersion(newVersion) rewrites exactly the existing
\* registry files whose detected version is valid and strictly less than
\* newVersion: afterwards each of them embeds newVersion, every other file is
\* as it was, and the returned list holds exactly one FileUpdate per
\* rewritten file.
SyncRewritesExactlyBehind ==
  [][(/\ last'.op = "detectAndUpdateVersion"
      /\ last'.err = "none"
      /\ IsVersionText(last'.target)) =>
       /\ last'.ret = ExpectedUpdates(1, pkg, readme, last'.target)
       /\ \A i \in 1..Len(Registry) :
            IF Behind(Registry[i], FileOf(Registry[i], pkg, readme), last'.target)
            THEN Embedded(Registry[i], FileOf(Registry[i], pkg', readme')) = last'.target
            ELSE FileOf(Registry[i], pkg', readme') = FileOf(Registry[i], pkg, readme)]_vars

\* C10: after a successful detectAndUpdateVersion(v), a second
\* detectAndUpdateVersion(v) returns an empty list without raising and
\* leaves every file unchanged.
SyncIdempotent ==
  [][(last'.op = "detectAndUpdateVersion" /\ last'.repeat = "again") =>
       /\ last'.err = "none"
       /\ last'.ret = <<>>
       /\ pkg' = pkg
       /\ readme' = readme]_vars

\* ------------------------------------------------------------------------
\* Failures of a bump
\* ------------------------------------------------------------------------

\* the synchronizer, asked for the version recommended at the level, returns
\* normally with no FileUpdate
NothingToUpdate(level) ==
  /\ recommendNextVersion(logf, level).err = "none"
  /\ detectAndUpdateVersion(recommendNextVersion(logf, level).val, pkg, readme)
       = [err |-> "none", pkg |-> pkg, readme |-> readme, updates |-> <<>>]

\* C11: whenever the synchronizer returns zero FileUpdates, incrementVersion
\* fails with NoReferencesUpdated, no entry is appended to the log and no file
\* is modified.
NoReferencesUpdatedIsFatal ==
  [][(last'.op = "incrementVersion" /\ NothingToUpdate(last'.level)) =>
       /\ last'.err = "NoReferencesUpdated"
       /\ ~last'.wrote
       /\ logf' = logf
       /\ pkg' = pkg
       /\ readme' = readme]_vars

\* a bump was refused because no file was behind, on a project with a history
BumpRefusedNothingBehind ==
  /\ last.op = "incrementVersion"
  /\ last.err = "NoReferencesUpdated"
  /\ History(logf) # <<>>

\* the manifest's version is strictly below the latest logged version
ManifestBehindLog ==
  /\ ManifestValid
  /\ History(logf) # <<>>
  /\ TripleLess(CurrentTriple, LatestTriple)

\* C12: while the manifest's version is strictly below the latest logged
\* version, no operation of the ledger rewrites the manifest or appends to
\* the log, and the three that record a version (ensureCurrentVersionValid,
\* addCurrentVersion, incrementVersion) fail with VersionRegression.
RegressionIsFatal ==
  [][(ManifestBehindLog /\ last'.op # "edit") =>
       /\ pkg' = pkg
       /\ logf' = logf
       /\ last'.op \in {"ensureCurrentVersionValid", "addCurrentVersion",
                        "incrementVersion"}
            => last'.err = "VersionRegression"]_vars

\* the bump that has just died had rewritten the manifest to the version it
\* recommended (last.target)
DiedAfterManifestRewrite ==
  /\ last.op = "crash"
  /\ last.err = "none"
  /\ UpdatesOf(last.ret, "package.json") # {}

\* C13: when a bump dies after the reference files were rewritten to V and
\* before the entry was appended, the next ensureCurrentVersionValid appends
\* V to the log, and then the latest logged version is the manifest's
\* version.
CrashReconciled ==
  [][(DiedAfterManifestRewrite /\ last'.op = "ensureCurrentVersionValid") =>
       /\ last'.err = "none"
       /\ AppendsOne(History(logf), History(logf'), TripleOf(last.target))
       /\ getCurrentVersion(pkg') = Ok(last.target)]_vars

\* ------------------------------------------------------------------------
\* A log found out of order
\* ------------------------------------------------------------------------

\* the entry at index i (1-based) is below the entry before it
Descent(h, i) ==
  TripleLess(TripleOf(h[i].version), TripleOf(h[i - 1].version))

LogOutOfOrder == \E i \in 2..Len(History(logf)) : Descent(History(logf), i)

\* the position of the first out-of-order pair, as the index (from 0) of its
\* lower entry
FirstDescent(h) ==
  (CHOOSE i \in 2..Len(h) :
     Descent(h, i) /\ \A j \in 2..(i - 1) : ~Descent(h, j)) - 1

ReadPaths ==
  {"listHistory", "validateHistory", "ensureCurrentVersionValid",
   "addCurrentVersion", "recommendNextVersion", "incrementVersion"}

\* the call that has just ended failed on the order of the log, reporting
\* the position of its first out-of-order pair
ReportsFirstDescent ==
  /\ last'.err = "HistoricalRegression"
  /\ loadLog(logf).err = "HistoricalRegression"
  /\ loadLog(logf).pos = FirstDescent(History(logf))

\* C14, as stated: when the log holds an entry below its predecessor, every
\* read path fails reporting the position of the first out-of-order pair, and
\* log, manifest and reference files are unchanged.
BadLogFailsEveryRead ==
  [][(LogOutOfOrder /\ last'.op \in ReadPaths) =>
       /\ ReportsFirstDescent
       /\ ~last'.wrote
       /\ logf' = logf
       /\ pkg' = pkg
       /\ readme' = readme]_vars

\* C14, amended: when the log holds an entry below its predecessor, every
\* read path fails and log, manifest and reference files are unchanged; the
\* failure reports the position of the first out-of-order pair, except that
\* ensureCurrentVersionValid and addCurrentVersion, which read the manifest
\* first, report the manifest's error when its version cannot be read.
BadLogFailsEveryReadAfterManifest ==
  [][(LogOutOfOrder /\ last'.op \in ReadPaths) =>
       /\ last'.err # "none"
       /\ ~last'.wrote
       /\ logf' = logf
       /\ pkg' = pkg
       /\ readme' = readme
       /\ (\/ ManifestValid
           \/ last'.op \notin {"ensureCurrentVersionValid", "addCurrentVersion"})
            => ReportsFirstDescent]_vars

\* a call that reads the manifest first has failed on a log whose first
\* out-of-order pair is not its first pair
LaterPairReported ==
  /\ last.op \in {"ensureCurrentVersionValid", "incrementVersion"}
  /\ last.err = "HistoricalRegression"
  /\ LogOutOfOrder
  /\ FirstDescent(History(logf)) = 2

\* ------------------------------------------------------------------------
\* Operations that only read
\* ------------------------------------------------------------------------

\* C15: recommendNextVersion(level) returns, for the latest logged version
\* (M, N, P), or (0, 0, 0) when the history is empty, (M, N, P+1) for patch,
\* (M, N+1, 0) for minor and (M+1, 0, 0) for major, whatever the manifest
\* holds.
RecommendIsBumpOfLatest ==
  [][last'.op = "recommendNextVersion" =>
       /\ last'.err = "none"
       /\ last'.ret = Canonical(BumpOf(History(logf), last'.level))]_vars

\* a minor bump was recommended from a latest version with a patch, while the
\* manifest held no valid version
MinorRecommendedOverPatch ==
  /\ last.op = "recommendNextVersion"
  /\ last.level = "minor"
  /\ History(logf) # <<>>
  /\ LatestTriple[3] > 0
  /\ ~ManifestValid

\* C16: recommendNextVersion, listHistory, validateHistory, getCurrentVersion
\* and compareVersions write neither the log, nor the manifest, nor a
\* reference file, and do not create a log file that is absent.
ReadsHaveNoSideEffect ==
  [][last'.op \in {"recommendNextVersion", "listHistory", "validateHistory",
                   "getCurrentVersion", "compareVersions"} =>
       /\ ~last'.wrote
       /\ logf' = logf
       /\ pkg' = pkg
       /\ readme' = readme]_vars

\* the history was listed on a project that has no log file, and there is
\* still none
ListedWithoutLog ==
  /\ last.op = "listHistory"
  /\ last.err = "none"
  /\ logf = Absent

\* the sign of a - b in the order of triples: major, then minor, then patch
SignOf(a, b) ==
  IF TripleLess(TripleOf(a), TripleOf(b)) THEN -1
  ELSE IF TripleLess(TripleOf(b), TripleOf(a)) THEN 1
  ELSE 0

\* C17: compareVersions is a total order on valid triples that agrees with
\* the lexicographic order of (major, minor, patch): it returns -1, 0 or 1,
\* compareVersions(a, b) = -compareVersions(b, a), it returns 0 exactly when
\* the triples are equal, and a < b and b < c imply a < c.
CompareIsTotalOrder ==
  [][last'.op = "compareVersions" =>
       /\ last'.ret \in {-1, 0, 1}
       /\ last'.ret = SignOf(last'.target[1], last'.target[2])
       /\ last'.ret = -compareVersions(last'.target[2], last'.target[1])
       /\ last'.ret = 0 <=> TripleOf(last'.target[1]) = TripleOf(last'.target[2])
       /\ \A c \in CompareInputs :
            (last'.ret = -1 /\ compareVersions(last'.target[2], c) = -1)
              => compareVersions(last'.target[1], c) = -1]_vars

\* two versions were compared whose order as numbers is the reverse of their
\* order as texts, and which differ the other way round in minor and patch
NumbersNotTextsCompared ==
  /\ last.op = "compareVersions"
  /\ last.target = <<VersionText(9, 10, 10), VersionText(10, 9, 9)>>
  /\ last.ret = -1

\* ------------------------------------------------------------------------
\* Failures of the synchronizer
\* ------------------------------------------------------------------------

\* C18: detectAndUpdateVersion called with a newVersion that does not match
\* X.Y.Z with numeric components fails with InvalidSemanticVersion and
\* leaves every file as it was.
InvalidTargetRefused ==
  [][(last'.op = "detectAndUpdateVersion" /\ ~IsVersionText(last'.target)) =>
       /\ last'.err = "InvalidSemanticVersion"
       /\ pkg' = pkg
       /\ readme' = readme]_vars

\* the other registry file
OtherOf(name) == IF name = Registry[1] THEN Registry[2] ELSE Registry[1]

\* the file is missing, or its version can be detected without an error
Readable(name, file) ==
  \/ file.kind = "absent"
  \/ DetectVersion(name, file).err = "none"

\* C19: a registry file that does not exist is skipped without failing the
\* call: detectAndUpdateVersion does not create it, and when the other file
\* is readable the call returns normally with the FileUpdates of the files
\* that are behind, the other file being rewritten exactly when it is one.
MissingFileSkipped ==
  [][\A name \in {Registry[1], Registry[2]} :
       (/\ last'.op = "detectAndUpdateVersion"
        /\ IsStrictVersionText(last'.target)
        /\ FileOf(name, pkg, readme) = Absent
        /\ Readable(OtherOf(name), FileOf(OtherOf(name), pkg, readme)))
       => /\ last'.err = "none"
          /\ FileOf(name, pkg', readme') = Absent
          /\ last'.ret = ExpectedUpdates(1, pkg, readme, last'.target)
          /\ UpdatesOf(last'.ret, name) = {}
          /\ (FileOf(OtherOf(name), pkg', readme') # FileOf(OtherOf(name), pkg, readme))
               <=> UpdatesOf(last'.ret, OtherOf(name)) # {}]_vars

\* the manifest is missing and the free-text file was rewritten and reported
ReadmeUpdatedWithoutManifest ==
  /\ last.op = "detectAndUpdateVersion"
  /\ last.err = "none"
  /\ pkg = Absent
  /\ UpdatesOf(last.ret, "README.md") # {}
  /\ UpdatesOf(last.ret, "package.json") = {}

\* C20: when one file's unit of work raises an error, detectAndUpdateVersion
\* raises an error, the other file, if it was behind, stays rewritten, and
\* the caller learns which files were updated: every file the call changed
\* is named by a FileUpdate the call hands to the caller.
PartialFailureSurfaced ==
  [][\A name \in {Registry[1], Registry[2]} :
       (/\ last'.op = "detectAndUpdateVersion"
        /\ last'.err # "InvalidSemanticVersion"
        /\ ~Readable(name, FileOf(name, pkg, readme)))
       => /\ last'.err # "none"
          /\ FileOf(name, pkg', readme') = FileOf(name, pkg, readme)
          /\ Behind(OtherOf(name), FileOf(OtherOf(name), pkg, readme), last'.target)
               => FileOf(OtherOf(name), pkg', readme') # FileOf(OtherOf(name), pkg, readme)
          /\ FileOf(OtherOf(name), pkg', readme') # FileOf(OtherOf(name), pkg, readme)
               => UpdatesOf(last'.ret, OtherOf(name)) # {}]_vars

\* ------------------------------------------------------------------------
\* detectAndUpdateVersion, step by step.  Each callback of filesToUpdate.map
\* runs until its next await: readFile, then writeFile.  What follows the
\* read (detectVersion, the comparison, replaceVersion) is synchronous.  A
\* callback is at
\*   "read"      its readFile is pending
\*   "write"     its writeFile of `content` is pending
\*   "done"      resolved, to the FileUpdate in `update` or to null (<<>>)
\*   "failed"    rejected with `err`
\* ------------------------------------------------------------------------

TaskAt(pc, content, update, err) ==
  [pc |-> pc, content |-> content, update |-> update, err |-> err]

\* the call after its semver.valid check: both callbacks started, `from`
\* the files as they were at that moment, `settled` the callbacks in the
\* order they resolved or rejected, `returned` whether the caller has its
\* answer
StartedSync(newVersion, manifest, doc) ==
  [op |-> "detectAndUpdateVersion",
   newVersion |-> newVersion,
   from |-> [pkg |-> manifest, readme |-> doc],
   tasks |-> [name \in {Registry[1], Registry[2]} |-> TaskAt("read", <<>>, <<>>, "none")],
   settled |-> <<>>,
   returned |-> FALSE]

\* the callback once readFile has answered with the file as it is now
AfterRead(r) ==
  IF r.err # "none" THEN TaskAt("failed", <<>>, <<>>, r.err)
  ELSE IF r.update = <<>> THEN TaskAt("done", <<>>, <<>>, "none")
  ELSE TaskAt("write", r.file, r.update, "none")

Settles(task) == task.pc \in {"done", "failed"}

\* the call with the callback of `name` moved to `task`
WithTask(sync, name, task) ==
  [sync EXCEPT !.tasks[name] = task,
               !.settled = IF Settles(task) THEN Append(@, name) ELSE @]

readStep(sync, name, file) ==
  WithTask(sync, name, AfterRead(FileTask(name, file, sync.newVersion)))

\* the callback once writeFile has answered
writeStep(sync, name) ==
  WithTask(sync, name, [sync.tasks[name] EXCEPT !.pc = "done"])

AllSettled(sync) == \A name \in DOMAIN sync.tasks : Settles(sync.tasks[name])

SomeFailed(sync) == \E name \in DOMAIN sync.tasks : sync.tasks[name].pc = "failed"

\* the error Promise.all rejects with: that of the first callback to reject
RECURSIVE FirstError(_, _)
FirstError(sync, i) ==
  IF i > Len(sync.settled) THEN "none"
  ELSE IF sync.tasks[sync.settled[i]].pc = "failed"
  THEN sync.tasks[sync.settled[i]].err
  ELSE FirstError(sync, i + 1)

\* a variant that collects the answers in the order the callbacks settled
RECURSIVE GatheredAsSettled(_, _)
GatheredAsSettled(sync, i) ==
  IF i > Len(sync.settled) THEN <<>>
  ELSE sync.tasks[sync.settled[i]].update \o GatheredAsSettled(sync, i + 1)

\* the array Promise.all resolves to, without its nulls: one slot per
\* callback, in the order of filesToUpdate
RECURSIVE Gathered(_, _)
Gathered(sync, i) ==
  IF i > Len(Registry) THEN <<>>
  ELSE sync.tasks[Registry[i]].update \o Gathered(sync, i + 1)

\* what the caller of detectAndUpdateVersion gets
Answer(sync) ==
  IF SomeFailed(sync) THEN [err |-> FirstError(sync, 1), updates |-> <<>>]
  ELSE [err |-> "none", updates |-> Gathered(sync, 1)]

Idle == procs = NoProcs

\* detectAndUpdateVersion is called: the check of newVersion, then the
\* callbacks are started
StartSync(newVersion) ==
  /\ Idle
  /\ IF ~semverValid(newVersion)
     THEN /\ last' = Call("detectAndUpdateVersion", "none", newVersion,
                          "InvalidSemanticVersion", FALSE, <<>>)
          /\ UNCHANGED procs
     ELSE /\ procs' = StartedSync(newVersion, pkg, readme)
          /\ UNCHANGED last
  /\ UNCHANGED <<pkg, logf, readme, clock>>

\* readFile of one callback answers
ReadFile(name) ==
  /\ ~Idle
  /\ procs.tasks[name].pc = "read"
  /\ procs' = readStep(procs, name, FileOf(name, pkg, readme))
  /\ UNCHANGED <<pkg, logf, readme, clock, last>>

\* writeFile of one callback answers: the file holds the new content
WriteFile(name) ==
  /\ ~Idle
  /\ procs.tasks[name].pc = "write"
  /\ pkg' = IF name = "package.json" THEN procs.tasks[name].content ELSE pkg
  /\ readme' = IF name = "README.md" THEN procs.tasks[name].content ELSE readme
  /\ procs' = writeStep(procs, name)
  /\ UNCHANGED <<logf, clock, last>>

\* Promise.all settles and the caller gets its answer: as soon as one
\* callback has rejected, or when all have resolved
ReturnSync ==
  /\ ~Idle
  /\ ~procs.returned
  /\ SomeFailed(procs) \/ AllSettled(procs)
  /\ \E a \in {Answer(procs)} :
         last' = Call("detectAndUpdateVersion", "none", procs.newVersion,
                      a.err, FALSE, a.updates)
  /\ procs' = [procs EXCEPT !.returned = TRUE]
  /\ UNCHANGED <<pkg, logf, readme, clock>>

\* the last callback has settled after the caller got its answer
FinishSync ==
  /\ ~Idle
  /\ procs.returned
  /\ AllSettled(procs)
  /\ procs' = NoProcs
  /\ UNCHANGED <<pkg, logf, readme, clock, last>>

\* the manifests a project may hold: none, a document, or a text that is no
\* JSON document
BrokenManifest == Text(<<"{">>)

InitTasks ==
  /\ pkg \in {Absent, BrokenManifest} \cup {Manifest(t) : t \in ManifestTexts}
  /\ logf = Absent
  /\ readme \in SyncReadmes
  /\ clock = 1
  /\ last = NoCall
  /\ procs = NoProcs

NextTasks ==
  \/ \E newVersion \in SyncTargets : StartSync(newVersion)
  \/ \E name \in {Registry[1], Registry[2]} : ReadFile(name)
  \/ \E name \in {Registry[1], Registry[2]} : WriteFile(name)
  \/ ReturnSync
  \/ FinishSync

SpecTasks == InitTasks /\ [][NextTasks]_vars

\* C21: the callbacks of detectAndUpdateVersion are independent: however
\* their reads and writes interleave, the caller gets the error or the
\* FileUpdate list (in registry order) that the callbacks give when run one
\* after the other on the files as they were at the call, and once the last
\* callback has settled every file holds what it holds then.
TasksIndependent ==
  [][/\ (~Idle /\ ~procs.returned /\ procs'.returned) =>
          /\ last'.err = detectAndUpdateVersion(procs.newVersion, procs.from.pkg, procs.from.readme).err
          /\ last'.ret = detectAndUpdateVersion(procs.newVersion, procs.from.pkg, procs.from.readme).updates
     /\ (~Idle /\ procs' = NoProcs) =>
          /\ pkg' = detectAndUpdateVersion(procs.newVersion, procs.from.pkg, procs.from.readme).pkg
          /\ readme' = detectAndUpdateVersion(procs.newVersion, procs.from.pkg, procs.from.readme).readme]_vars

\* both files were rewritten and the free-text file's callback settled first
BothRewrittenReadmeFirst ==
  /\ ~Idle
  /\ procs.returned
  /\ procs.settled = <<Registry[2], Registry[1]>>
  /\ Len(last.ret) = 2
  /\ last.ret[1].filePath = Registry[1]
  /\ pkg # procs.from.pkg
  /\ readme # procs.from.readme

\* ------------------------------------------------------------------------
\* Two invocations of incrementVersion against the same project, step by
\* step.  An invocation runs until its next await and is at
\*   "recommend"  readLog of recommendNextVersion is pending
\*   "sync"       Promise.all of detectAndUpdateVersion is pending
\*   "addGet"     readFile of the manifest, in addCurrentVersion, is pending
\*   "addLog"     readLog of addCurrentVersion is pending
\*   "addWrite"   writeFile of the log, holding `content`, is pending
\*   "done"       returned
\*   "failed"     threw `err`
\* `seen` is the log file as recommendNextVersion read it and `entry` the
\* entry the invocation pushed.  `raced` tells whether an invocation read the
\* log in addCurrentVersion while the other one had read it there and not yet
\* written it.
\* ------------------------------------------------------------------------

Callers == {1, 2}

Called(level, notes) ==
  [pc |-> "recommend", level |-> level, notes |-> notes, sync |-> NoProcs,
   seen |-> Absent, current |-> <<>>, content |-> Absent, entry |-> <<>>,
   err |-> "none"]

Failed(inv, err) == [inv EXCEPT !.pc = "failed", !.err = err]

Ended(inv) == inv.pc \in {"done", "failed"}

\* recommendNextVersion has answered; detectAndUpdateVersion checks the new
\* version and starts its callbacks
recommendStep(inv, newVersion, manifest, file, doc) ==
  IF newVersion.err # "none" THEN Failed(inv, newVersion.err)
  ELSE IF ~semverValid(newVersion.val) THEN Failed(inv, "InvalidSemanticVersion")
  ELSE [inv EXCEPT !.pc = "sync", !.seen = file,
                   !.sync = StartedSync(newVersion.val, manifest, doc)]

\* Promise.all has answered
syncReturnStep(inv, answer) ==
  IF answer.err # "none"
  THEN [Failed(inv, answer.err) EXCEPT !.sync.returned = TRUE]
  ELSE IF Len(answer.updates) = 0
  THEN [Failed(inv, "NoReferencesUpdated") EXCEPT !.sync.returned = TRUE]
  ELSE [inv EXCEPT !.pc = "addGet", !.sync.returned = TRUE]

\* getCurrentVersion of addCurrentVersion has answered
addGetStep(inv, currentVersion) ==
  IF currentVersion.err # "none" THEN Failed(inv, currentVersion.err)
  ELSE [inv EXCEPT !.pc = "addLog", !.current = currentVersion.val]

\* a variant that works from the log as recommendNextVersion read it
LogFromRecommend(inv, file) == inv.seen

\* the log file addCurrentVersion works from: the one readLog reads now
LogForAdd(inv, file) == file

\* addCurrentVersion after readLog: the checks, the push and the writeFile
\* it issues, for r the outcome of the checks and the push
addLogStep(inv, r) ==
  IF r.err # "none" THEN Failed(inv, r.err)
  ELSE [inv EXCEPT !.pc = "addWrite", !.content = r.file,
                   !.entry = r.file.val.history[Len(r.file.val.history)]]

\* the invocation ends: the caller sees its outcome
Outcome(inv) ==
  Call("incrementVersion", inv.level, <<>>, inv.err, inv.pc = "done", <<>>)

LastAfter(inv) == IF Ended(inv) THEN Outcome(inv) ELSE last

InRace == procs # NoProcs

\* two callers invoke incrementVersion at the same time
CallBoth(l1, l2, notes) ==
  /\ ~InRace
  /\ procs' = [inv |-> <<Called(l1, notes), Called(l2, notes)>>, raced |-> FALSE]
  /\ UNCHANGED <<pkg, logf, readme, clock, last>>

Recommend(i) ==
  /\ InRace
  /\ procs.inv[i].pc = "recommend"
  /\ \E inv \in {recommendStep(procs.inv[i],
                               recommendNextVersion(logf, procs.inv[i].level),
                               pkg, logf, readme)} :
         /\ procs' = [procs EXCEPT !.inv[i] = inv]
         /\ last' = LastAfter(inv)
  /\ UNCHANGED <<pkg, logf, readme, clock>>

TaskRead(i, name) ==
  /\ InRace
  /\ procs.inv[i].sync # NoProcs
  /\ procs.inv[i].sync.tasks[name].pc = "read"
  /\ procs' = [procs EXCEPT !.inv[i].sync = readStep(@, name, FileOf(name, pkg, readme))]
  /\ UNCHANGED <<pkg, logf, readme, clock, last>>

TaskWrite(i, name) ==
  /\ InRace
  /\ procs.inv[i].sync # NoProcs
  /\ procs.inv[i].sync.tasks[name].pc = "write"
  /\ pkg' = IF name = "package.json" THEN procs.inv[i].sync.tasks[name].content ELSE pkg
  /\ readme' = IF name = "README.md" THEN procs.inv[i].sync.tasks[name].content ELSE readme
  /\ procs' = [procs EXCEPT !.inv[i].sync = writeStep(@, name)]
  /\ UNCHANGED <<logf, clock, last>>

SyncReturn(i) ==
  /\ InRace
  /\ procs.inv[i].pc = "sync"
  /\ SomeFailed(procs.inv[i].sync) \/ AllSettled(procs.inv[i].sync)
  /\ \E inv \in {syncReturnStep(procs.inv[i], Answer(procs.inv[i].sync))} :
         /\ procs' = [procs EXCEPT !.inv[i] = inv]
         /\ last' = LastAfter(inv)
  /\ UNCHANGED <<pkg, logf, readme, clock>>

AddGet(i) ==
  /\ InRace
  /\ procs.inv[i].pc = "addGet"
  /\ \E inv \in {addGetStep(procs.inv[i], getCurrentVersion(pkg))} :
         /\ procs' = [procs EXCEPT !.inv[i] = inv]
         /\ last' = LastAfter(inv)
  /\ UNCHANGED <<pkg, logf, readme, clock>>

AddLog(i) ==
  /\ InRace
  /\ procs.inv[i].pc = "addLog"
  /\ \E inv \in {addLogStep(procs.inv[i],
                            record(Ok(procs.inv[i].current),
                                   loadLog(LogForAdd(procs.inv[i], logf)),
                                   logf, clock, procs.inv[i].notes))} :
         /\ procs' = [procs EXCEPT
                        !.inv[i] = inv,
                        !.raced = @ \/ \E j \in Callers \ {i} : procs.inv[j].pc = "addWrite"]
         /\ last' = LastAfter(inv)
         /\ Tick(inv.pc = "addWrite")
  /\ UNCHANGED <<pkg, logf, readme>>

AddWrite(i) ==
  /\ InRace
  /\ procs.inv[i].pc = "addWrite"
  /\ logf' = procs.inv[i].content
  /\ \E inv \in {[procs.inv[i] EXCEPT !.pc = "done"]} :
         /\ procs' = [procs EXCEPT !.inv[i] = inv]
         /\ last' = LastAfter(inv)
  /\ UNCHANGED <<pkg, readme, clock>>

NextRace ==
  \/ \E l1 \in Levels, l2 \in Levels, notes \in Notes : CallBoth(l1, l2, notes)
  \/ \E i \in Callers : Recommend(i)
  \/ \E i \in Callers, name \in {Registry[1], Registry[2]} : TaskRead(i, name)
  \/ \E i \in Callers, name \in {Registry[1], Registry[2]} : TaskWrite(i, name)
  \/ \E i \in Callers : SyncReturn(i)
  \/ \E i \in Callers : AddGet(i)
  \/ \E i \in Callers : AddLog(i)
  \/ \E i \in Callers : AddWrite(i)

SpecRace == Init /\ [][NextRace]_vars

\* both invocations have returned or thrown
BothEnded == InRace /\ \A i \in Callers : Ended(procs.inv[i])

\* the invocation returned normally, so the entry it pushed was written
Persisted(i) == InRace /\ procs.inv[i].pc = "done"

\* the log file does not hold the entry the invocation pushed
Lost(i) == \A k \in 1..Len(History(logf)) : History(logf)[k] # procs.inv[i].entry

\* C22: two concurrent invocations of incrementVersion are not safe: an
\* entry that one invocation persisted can be missing from the log once both
\* have ended.  It is missing only when the invocations raced in
\* addCurrentVersion, one reading the log between the other's readLog and
\* writeFile, so that the later writeFile stores a log read before the
\* earlier one.
EntryLostOnlyInRace ==
  (BothEnded /\ \E i \in Callers : Persisted(i) /\ Lost(i)) => procs.raced

\* both invocations returned normally and the first one's entry is gone
EntryLost ==
  /\ BothEnded
  /\ Persisted(1)
  /\ Persisted(2)
  /\ Lost(1)
  /\ Len(History(logf)) = Len(History(procs.inv[1].seen)) + 1

\* ------------------------------------------------------------------------
\* The ledger on a log file of another shape
\* ------------------------------------------------------------------------

\* log files that do not hold {history: [{version, timestamp, notes?}]}: a
\* text that is no JSON, a document without "history", and histories with an
\* entry that has no version (entry.version is undefined) or no timestamp
MalformedLogs ==
  {Text(<<"{">>),
   JSONstringify([versions |-> <<>>]),
   JSONstringify([history |-> <<[version |-> Undefined, timestamp |-> 1, notes |-> "seed"]>>]),
   JSONstringify([history |-> <<SeedEntry(VersionAt(1), 1),
                                [version |-> Undefined, timestamp |-> 2, notes |-> "seed"]>>])}
  \cup {JSONstringify([history |-> <<[version |-> v, notes |-> "seed"]>>]) : v \in Versions}

InitMalformed ==
  /\ pkg \in {Manifest(t) : t \in ManifestTexts}
  /\ logf \in {Absent} \cup MalformedLogs
  /\ readme \in InitReadmes
  /\ clock = MaxBadLog + 1
  /\ last = NoCall
  /\ procs = NoProcs

SpecMalformed == InitMalformed /\ [][Next]_vars

\* an entry of the shape {version, timestamp, notes?}
EntryShaped(e) ==
  /\ {"version", "timestamp"} \subseteq DOMAIN e
  /\ e.version # Undefined

\* the file exists and does not hold {history: [entries]}
Malformed(file) ==
  \/ file.kind = "text"
  \/ /\ file.kind = "json"
     /\ \/ "history" \notin DOMAIN file.val
        \/ \E i \in 1..Len(file.val.history) : ~EntryShaped(file.val.history[i])

\* C23: when the log file exists but does not hold {history: [entries with
\* version and timestamp]}, every ledger operation that reads the log fails
\* with InvalidLogStructure and leaves the log as it is (for
\* ensureCurrentVersionValid and addCurrentVersion: once the manifest has
\* been read); when there is no log file, listHistory returns an empty
\* history.
MalformedLogRefused ==
  [][/\ (/\ Malformed(logf)
         /\ last'.op \in ReadPaths
         /\ (\/ ManifestValid
             \/ last'.op \notin {"ensureCurrentVersionValid", "addCurrentVersion"}))
        => /\ last'.err \in {"InvalidLogStructure", "InvalidLogJSON"}
           /\ ~last'.wrote
           /\ logf' = logf
     /\ (logf = Absent /\ last'.op = "listHistory")
        => /\ last'.err = "none"
           /\ last'.ret = <<>>
           /\ logf' = Absent]_vars

\* ------------------------------------------------------------------------
\* The ledger on a manifest whose version cannot be used
\* ------------------------------------------------------------------------

\* what the manifest's version field may hold: a version, "01.0.0", "1.0",
\* "v1.1.0", or nothing (the manifest has no version field)
VersionFields ==
  ManifestTexts \cup {<<"v">> \o VersionAt(2), Undefined}

InitManifest ==
  /\ pkg \in {Manifest(t) : t \in VersionFields}
  /\ logf \in InitLogs
  /\ readme \in InitReadmes
  /\ clock = Len(readLog(logf).val.history) + 1
  /\ last = NoCall
  /\ procs = NoProcs

NextManifest ==
  \/ \E t \in ManifestTexts : EditManifest(t)
  \/ GetCurrentVersion
  \/ EnsureCurrentVersionValid
  \/ \E notes \in Notes : AddCurrentVersion(notes)

SpecManifest == InitManifest /\ [][NextManifest]_vars

\* C24: when the manifest's version field is missing or does not match X.Y.Z
\* with numeric components, getCurrentVersion, ensureCurrentVersionValid and
\* addCurrentVersion fail with InvalidSemanticVersion and the log is not
\* written.
BadManifestVersionRefused ==
  [][(/\ last'.op \in {"getCurrentVersion", "ensureCurrentVersionValid",
                       "addCurrentVersion"}
      /\ pkg.kind = "json"
      /\ ~IsVersionText(pkg.val.version))
     => /\ last'.err = "InvalidSemanticVersion"
        /\ ~last'.wrote
        /\ logf' = logf]_vars

\* ------------------------------------------------------------------------
\* Reading a log back
\* ------------------------------------------------------------------------

\* longest history of a valid version log that is read back
MaxReadLog == 3

\* the entry as a call of the ledger writes it; the second entry of a log
\* was written without notes
StoredEntry(version, i) ==
  IF i = 2 THEN [version |-> version, timestamp |-> i]
  ELSE SeedEntry(version, i)

\* the valid logs on disk: histories in order, some versions written with a
\* leading zero
StoredLogs ==
  {f \in {JSONstringify([history |-> [i \in 1..Len(h) |-> StoredEntry(h[i], i)]]) :
            h \in UNION {[1..n -> LogTexts] : n \in 0..MaxReadLog}} :
     loadLog(f).err = "none"}

InitStored ==
  /\ pkg \in {Manifest(VersionAt(2))}
  /\ logf \in StoredLogs
  /\ readme \in InitReadmes
  /\ clock = MaxReadLog + 1
  /\ last = NoCall
  /\ procs = NoProcs

NextStored ==
  \/ ListHistory
  \/ ValidateHistory
  \/ EnsureCurrentVersionValid

SpecStored == InitStored /\ [][NextStored]_vars

\* C25: listHistory on a valid log returns as many entries as the file
\* holds, in the same order, each equal to the persisted entry but for its
\* version, which is the persisted version in canonical text; normalizing the
\* returned history again changes nothing, and the file is left as it is.
ReadBackNormalized ==
  [][(last'.op = "listHistory" /\ loadLog(logf).err = "none") =>
       /\ last'.err = "none"
       /\ Len(last'.ret) = Len(History(logf))
       /\ \A i \in 1..Len(History(logf)) :
            last'.ret[i] =
              [History(logf)[i] EXCEPT !.version = Canonical(TripleOf(@))]
       /\ validateAndRepairLog([history |-> last'.ret]).err = "none"
       /\ validateAndRepairLog([history |-> last'.ret]).val.history = last'.ret
       /\ logf' = logf]_vars

\* a log of three entries was read back whose file holds "01.0.0" and an
\* entry without notes
PaddedLogReadBack ==
  /\ last.op = "listHistory"
  /\ last.err = "none"
  /\ Len(last.ret) = MaxReadLog
  /\ \E i \in 1..Len(History(logf)) :
       /\ History(logf)[i].version = PaddedVersion
       /\ last.ret[i].version = VersionText(1, 0, 0)
  /\ "notes" \notin DOMAIN last.ret[2]

\* ------------------------------------------------------------------------
\* The command line: main() and parseCliArgs(), step by step.  The process
\* is at
\*   "getCurrentVersion"  parseCliArgs awaits getCurrentVersion
\*   "incrementVersion"   the handler of `version bump <level>` awaits
\*                        incrementVersion
\*   "report"             the handler awaits getCurrentVersion
\*   "ensure"             parseCliArgs awaits ensureCurrentVersionValid
\*   "main"               parseCliArgs has returned its options to main
\*   "pipeline"           main awaits pipeline.run
\*   "exited"             the process has ended with the code `exit`
\* `said` is the version the process printed, if any.
\* ------------------------------------------------------------------------

\* the command lines: `openapi2md version bump <level>` and
\* `openapi2md <input-file>`
CommandLines ==
  {[cmd |-> "bump", level |-> level] : level \in Levels}
  \cup {[cmd |-> "generate", level |-> "none"]}

Launched(argv) ==
  [op |-> "cli", pc |-> "getCurrentVersion", cmd |-> argv.cmd, level |-> argv.level,
   version |-> <<>>, exit |-> -1, said |-> <<>>]

Exited(cli, code) == [cli EXCEPT !.pc = "exited", !.exit = code]

\* line 43 of parseCliArgs; an error leaves parseCliArgs and main, and
\* main().catch exits with 1.  Then yargs runs the handler of the command,
\* or parseCliArgs goes on
afterVersion(cli, currentVersion) ==
  IF currentVersion.err # "none" THEN Exited(cli, 1)
  ELSE [cli EXCEPT !.version = currentVersion.val,
                   !.pc = IF cli.cmd = "bump" THEN "incrementVersion" ELSE "ensure"]

\* a variant of the handler that leaves a failed bump to the rest of
\* parseCliArgs
afterIncrementLenient(cli, err) ==
  IF err # "none" THEN [cli EXCEPT !.pc = "ensure"]
  ELSE [cli EXCEPT !.pc = "report"]

\* the handler after incrementVersion: try/catch with process.exit(1)
afterIncrement(cli, err) ==
  IF err # "none" THEN Exited(cli, 1)
  ELSE [cli EXCEPT !.pc = "report"]

\* the handler after getCurrentVersion: console.log, process.exit(0)
afterReport(cli, newVersion) ==
  IF newVersion.err # "none" THEN Exited(cli, 1)
  ELSE [Exited(cli, 0) EXCEPT !.said = newVersion.val]

\* a variant of parseCliArgs that ignores the outcome of the check
afterEnsureLenient(cli, err) == [cli EXCEPT !.pc = "main"]

\* parseCliArgs after ensureCurrentVersionValid: an error leaves
\* parseCliArgs and main, and main().catch exits with 1
afterEnsure(cli, err) ==
  IF err # "none" THEN Exited(cli, 1)
  ELSE [cli EXCEPT !.pc = "main"]

\* the truth value of a string: every string but the empty one
Truthy(text) == text # <<>>

\* main after parseCliArgs: `if (args.version) { console.log(...); return; }`
\* with args.version the version parseCliArgs read; returning ends the
\* process with code 0
afterParse(cli) ==
  IF Truthy(cli.version) THEN Exited(cli, 0)
  ELSE [cli EXCEPT !.pc = "pipeline"]

CliAt(pc) == procs # NoProcs /\ procs.pc = pc

Launch(argv) ==
  /\ procs = NoProcs
  /\ procs' = Launched(argv)
  /\ UNCHANGED <<pkg, logf, readme, clock, last>>

CliGetCurrentVersion ==
  /\ CliAt("getCurrentVersion")
  /\ \E r \in {getCurrentVersion(pkg)} :
         /\ procs' = afterVersion(procs, r)
         /\ last' = Call("getCurrentVersion", "none", <<>>, r.err, FALSE, r.val)
  /\ UNCHANGED <<pkg, logf, readme, clock>>

CliIncrementVersion ==
  /\ CliAt("incrementVersion")
  /\ \E r \in {incrementVersion(pkg, logf, readme, procs.level, clock, "cli")} :
         /\ pkg' = r.pkg
         /\ readme' = r.readme
         /\ logf' = r.file
         /\ Tick(r.wrote)
         /\ procs' = afterIncrement(procs, r.err)
         /\ last' = Call("incrementVersion", procs.level, <<>>, r.err, r.wrote, <<>>)

CliReport ==
  /\ CliAt("report")
  /\ \E r \in {getCurrentVersion(pkg)} :
         /\ procs' = afterReport(procs, r)
         /\ last' = Call("getCurrentVersion", "none", <<>>, r.err, FALSE, r.val)
  /\ UNCHANGED <<pkg, logf, readme, clock>>

CliEnsure ==
  /\ CliAt("ensure")
  /\ \E r \in {ensureCurrentVersionValid(pkg, logf, clock)} :
         /\ logf' = r.file
         /\ Tick(r.wrote)
         /\ procs' = afterEnsure(procs, r.err)
         /\ last' = Call("ensureCurrentVersionValid", "none", <<>>, r.err, r.wrote, <<>>)
  /\ UNCHANGED <<pkg, readme>>

Main ==
  /\ CliAt("main")
  /\ procs' = afterParse(procs)
  /\ UNCHANGED <<pkg, logf, readme, clock, last>>

InitCli ==
  /\ pkg \in {Manifest(t) : t \in VersionFields}
  /\ logf \in InitLogs
  /\ readme \in InitReadmes
  /\ clock = Len(readLog(logf).val.history) + 1
  /\ last = NoCall
  /\ procs = NoProcs

NextCli ==
  \/ \E argv \in CommandLines : Launch(argv)
  \/ CliGetCurrentVersion
  \/ CliIncrementVersion
  \/ CliReport
  \/ CliEnsure
  \/ Main

SpecCli == InitCli /\ [][NextCli]_vars

\* the process is scheduled until it exits: every await is answered.  The
\* steps that call incrementVersion and ensureCurrentVersionValid are enabled
\* exactly while the process is at them and always leave that place, so
\* their weak fairness is that the process is not at them for ever.
SpecCliFair ==
  /\ SpecCli
  /\ WF_vars(CliGetCurrentVersion)
  /\ WF_vars(CliReport)
  /\ WF_vars(Main)
  /\ []<>(~CliAt("incrementVersion"))
  /\ []<>(~CliAt("ensure"))

Bumping == procs # NoProcs /\ procs.cmd = "bump"

\* C26: the bump command ends, in one of two ways: with code 0 after
\* incrementVersion and the getCurrentVersion that follows it both succeeded
\* and the version just recorded was printed, or with code 1 when one of
\* them threw; it never goes on to the check and the pipeline of a
\* documentation run.
BumpEndsInOneOfTwo ==
  /\ [][(Bumping /\ procs.pc = "incrementVersion") =>
          IF last'.err = "none" THEN procs'.pc = "report"
          ELSE procs'.pc = "exited" /\ procs'.exit = 1]_vars
  /\ [][(Bumping /\ procs.pc = "report") =>
          /\ procs'.pc = "exited"
          /\ IF last'.err = "none"
             THEN /\ procs'.exit = 0
                  /\ procs'.said = History(logf)[Len(History(logf))].version
             ELSE procs'.exit = 1 /\ procs'.said = <<>>]_vars
  /\ [](Bumping => procs.pc \notin {"ensure", "main", "pipeline"})
  /\ []((Bumping /\ procs.pc = "exited") =>
          /\ procs.exit \in {0, 1}
          /\ procs.exit = 0 <=> procs.said # <<>>)
  /\ (Bumping ~> (Bumping /\ procs.pc = "exited"))

\* a bump ended with code 0 after printing the version it recorded
BumpReported ==
  /\ Bumping
  /\ procs.pc = "exited"
  /\ procs.exit = 0
  /\ procs.said = VersionText(1, 0, 0)
  /\ last.op = "getCurrentVersion"

\* ---------------------------------------------------------------------
\* A documentation-generation run

Generating == procs # NoProcs /\ procs.cmd = "generate"

\* the manifest holds a valid version that is not below the latest logged one
ConsistentVersionState ==
  /\ getCurrentVersion(pkg).err = "none"
  /\ ensureCurrentVersionValid(pkg, logf, clock).err = "none"

\* C27: a run with an input file that starts from a consistent version state
\* (manifest valid and not below the latest logged version) eventually runs
\* the conversion pipeline.
ConsistentRunReachesPipeline ==
  (Generating /\ CliAt("getCurrentVersion") /\ ConsistentVersionState)
      ~> CliAt("pipeline")

\* what the program does instead: main never gets past its test of
\* args.version
PipelineNeverStarted == ~CliAt("pipeline")

\* a consistent run that has ended with code 0 without having run the pipeline
ConsistentRunEndedEarly ==
  /\ Generating
  /\ CliAt("exited")
  /\ procs.exit = 0
  /\ last.op = "ensureCurrentVersionValid"
  /\ last.err = "none"

\* C28: a documentation-generation run checks the version state before it
\* generates anything: when the manifest's version is below the latest
\* logged version, ensureCurrentVersionValid fails with VersionRegression,
\* the log is left as it was and the process exits with code 1 from there,
\* without reaching main's body or the pipeline; an exited process takes no
\* further step.
RegressionStopsGeneration ==
  /\ [][(Generating /\ CliAt("ensure") /\ ManifestBehindLog) =>
          /\ last'.err = "VersionRegression"
          /\ ~last'.wrote
          /\ logf' = logf
          /\ procs'.pc = "exited"
          /\ procs'.exit = 1]_vars
  /\ [][CliAt("exited") => procs' = procs]_vars

\* a generation run has been refused for a manifest below the log
GenerationRefused ==
  /\ Generating
  /\ CliAt("exited")
  /\ procs.exit = 1
  /\ last.op = "ensureCurrentVersionValid"
  /\ last.err = "VersionRegression"
  /\ ManifestBehindLog

\* ---------------------------------------------------------------------
\* Pipeline.run: read, resolveRefs, validate, convert, write

MaxPaths == 2

\* the `openapi` field against /^3\.\d+\.\d+$/
IsOpenapi3(s) ==
  /\ Len(s) >= 5
  /\ s[1] = "3"
  /\ s[2] = "."
  /\ DigitRun(s, 3) > 0
  /\ 3 + DigitRun(s, 3) <= Len(s)
  /\ s[3 + DigitRun(s, 3)] = "."
  /\ DigitRun(s, 4 + DigitRun(s, 3)) > 0
  /\ 4 + DigitRun(s, 3) + DigitRun(s, 4 + DigitRun(s, 3)) = Len(s) + 1

OpenapiFields ==
  {<<"3", ".", "0", ".", "3">>, <<"3", ".", "1">>, <<"2", ".", "0">>, Undefined}

\* a parsed input: its openapi field, its info ("titled": title and version
\* are strings), the number of its paths (-1: no paths object) and its $refs
Documents ==
  [openapi : OpenapiFields,
   info : {"titled", "untitled", "missing"},
   paths : -1..MaxPaths,
   refs : {"none", "resolvable", "dangling"}]

InputFiles ==
  {Absent, Text(<<"{">>)} \cup {[kind |-> "json", val |-> doc] : doc \in Documents}

\* args.options with the template file's state, and whether outputPath can
\* be created
PipelineArgs ==
  [inputPath : InputFiles,
   multipleFiles : BOOLEAN,
   template : {"default", "custom", "missing"},
   outputPath : {"writable", "denied"}]

\* FileReader.read: fs.readFile, then parse as YAML or else as JSON
read(file) ==
  IF file.kind = "absent" THEN Throw("ENOENT")
  ELSE IF file.kind = "text" THEN Throw("SyntaxError")
  ELSE Ok(file.val)

\* dereference: no $ref remains, or the one that points nowhere is reported
resolveRefs(doc) ==
  IF doc.refs = "dangling" THEN Throw("MissingPointerError")
  ELSE Ok([doc EXCEPT !.refs = "none"])

\* ZodValidator.validate: DocumentSchema.safeParse
validate(doc) ==
  IF IsOpenapi3(doc.openapi) /\ doc.info = "titled" /\ doc.paths >= 0
  THEN Ok(doc)
  ELSE Throw("InvalidOpenAPIDocument")

\* MarkdownConverter.convert: reads the template, then one file per path or
\* the single api.md
convert(doc, args) ==
  IF args.template = "missing" THEN Throw("ENOENT")
  ELSE IF args.multipleFiles THEN Ok([multiple |-> 1..doc.paths])
  ELSE Ok([single |-> {"api.md"}])

\* FileWriter.writeSingle: mkdir, writeFile of the one file at outputPath
\* (file 0)
writeSingle(args, result) ==
  IF args.outputPath = "denied" THEN Throw("EACCES") ELSE Ok({0})

\* FileWriter.writeMultiple: mkdir, one writeFile per entry
writeMultiple(args, result) ==
  IF args.outputPath = "denied" THEN Throw("EACCES") ELSE Ok(result.multiple)

\* the branch of run on the converter's result
writerFor(result) ==
  IF "single" \in DOMAIN result THEN "writeSingle"
  ELSE IF "multiple" \in DOMAIN result THEN "writeMultiple"
  ELSE "resolved"

\* run is called
Running(args) ==
  [op |-> "run", pc |-> "read", args |-> args, val |-> <<>>,
   trace |-> <<>>, failed |-> "none", written |-> {}]

\* a variant of run that hands whatever it has to the writer when a stage
\* fails
afterStageWritingAnyway(run, stage, r, next) ==
  IF r.err # "none"
  THEN [run EXCEPT !.pc = "writeSingle", !.failed = stage,
                   !.trace = Append(@, stage)]
  ELSE [run EXCEPT !.pc = next, !.val = r.val, !.trace = Append(@, stage)]

\* run after an awaited stage: its error rejects run's promise, its value is
\* what the next stage is given
afterStage(run, stage, r, next) ==
  IF r.err # "none"
  THEN [run EXCEPT !.pc = "rejected", !.failed = stage,
                   !.trace = Append(@, stage)]
  ELSE [run EXCEPT !.pc = next, !.val = r.val, !.trace = Append(@, stage)]

\* run after the awaited writer
afterWrite(run, stage, r) ==
  IF r.err # "none"
  THEN [run EXCEPT !.pc = "rejected", !.failed = stage,
                   !.trace = Append(@, stage)]
  ELSE [run EXCEPT !.pc = "resolved", !.written = r.val,
                   !.trace = Append(@, stage)]

RunAt(pc) == procs # NoProcs /\ procs.op = "run" /\ procs.pc = pc

Run(args) ==
  /\ procs = NoProcs
  /\ procs' = Running(args)
  /\ UNCHANGED <<pkg, logf, readme, clock, last>>

ReaderRead ==
  /\ RunAt("read")
  /\ procs' = afterStage(procs, "read", read(procs.args.inputPath), "resolveRefs")
  /\ UNCHANGED <<pkg, logf, readme, clock, last>>

ResolveRefs ==
  /\ RunAt("resolveRefs")
  /\ procs' = afterStage(procs, "resolveRefs", resolveRefs(procs.val), "validate")
  /\ UNCHANGED <<pkg, logf, readme, clock, last>>

ValidatorValidate ==
  /\ RunAt("validate")
  /\ procs' = afterStage(procs, "validate", validate(procs.val), "convert")
  /\ UNCHANGED <<pkg, logf, readme, clock, last>>

ConverterConvert ==
  /\ RunAt("convert")
  /\ \E r \in {convert(procs.val, procs.args)} :
         procs' = afterStage(procs, "convert", r,
                             IF r.err = "none" THEN writerFor(r.val) ELSE "rejected")
  /\ UNCHANGED <<pkg, logf, readme, clock, last>>

WriteSingle ==
  /\ RunAt("writeSingle")
  /\ procs' = afterWrite(procs, "writeSingle", writeSingle(procs.args, procs.val))
  /\ UNCHANGED <<pkg, logf, readme, clock, last>>

WriteMultiple ==
  /\ RunAt("writeMultiple")
  /\ procs' = afterWrite(procs, "writeMultiple", writeMultiple(procs.args, procs.val))
  /\ UNCHANGED <<pkg, logf, readme, clock, last>>

InitPipeline ==
  /\ pkg = Absent
  /\ logf = Absent
  /\ readme = Absent
  /\ clock = 1
  /\ last = NoCall
  /\ procs = NoProcs

NextPipeline ==
  \/ \E args \in PipelineArgs : Run(args)
  \/ ReaderRead
  \/ ResolveRefs
  \/ ValidatorValidate
  \/ ConverterConvert
  \/ WriteSingle
  \/ WriteMultiple

SpecPipeline == InitPipeline /\ [][NextPipeline]_vars

Writers == {"writeSingle", "writeMultiple"}

StagesWith(writer) == <<"read", "resolveRefs", "validate", "convert", writer>>

WriterInvoked ==
  procs # NoProcs /\ \E i \in 1..Len(procs.trace) : procs.trace[i] \in Writers

\* C29: Pipeline.run invokes its stages in the order read, resolveRefs,
\* validate, convert, write, each at most once; a stage that fails ends the
\* run, so no writer is invoked after a failed read, dereference, validation
\* or conversion and nothing is written; and at most one of writeSingle and
\* writeMultiple is invoked in a run.
StagesInOrderUntilFailure ==
  /\ [](procs # NoProcs =>
          /\ \E writer \in Writers :
                 procs.trace = SubSeq(StagesWith(writer), 1, Len(procs.trace))
          /\ Cardinality({i \in 1..Len(procs.trace) : procs.trace[i] \in Writers}) <= 1
          /\ procs.failed \notin Writers \cup {"none"} =>
                 ~WriterInvoked /\ procs.written = {}
          /\ procs.failed # "none" =>
                 procs.pc = "rejected" /\ procs.trace[Len(procs.trace)] = procs.failed)
  /\ [][RunAt("rejected") \/ RunAt("resolved") => procs' = procs]_vars

\* a run stopped by the validator, the writer not invoked
RunStoppedAtValidation ==
  /\ RunAt("rejected")
  /\ procs.failed = "validate"
  /\ procs.trace = <<"read", "resolveRefs", "validate">>
  /\ procs.args.outputPath = "writable"
  /\ procs.written = {}

\* ---------------------------------------------------------------------
\* The ledger on a project that has no log yet

InitFresh ==
  /\ pkg \in {Manifest(t) : t \in ManifestTexts}
  /\ logf = Absent
  /\ readme \in InitReadmes
  /\ clock = 1
  /\ last = NoCall
  /\ procs = NoProcs

SpecFresh == InitFresh /\ [][Next]_vars

\* C30: a log that starts absent and is written only by the ledger's
\* operations is strictly increasing: every entry's version is greater than
\* the version of the entry before it, so no two adjacent entries are equal.
FreshLogStrictlyIncreasing ==
  \A i \in 1..(Len(History(logf)) - 1) :
      TripleLess(TripleOf(History(logf)[i].version),
                 TripleOf(History(logf)[i + 1].version))

\* the ledger has built a log of three entries and has just left it alone
\* for a manifest at the latest logged version
ThreeEntriesThenUnchanged ==
  /\ Len(History(logf)) >= 3
  /\ last.op = "ensureCurrentVersionValid"
  /\ last.err = "none"
  /\ ~last.wrote
  /\ ManifestValid
  /\ CurrentTriple = LatestTriple

\* ---------------------------------------------------------------------
\* What a successful call of the ledger leaves behind

\* C31: whenever ensureCurrentVersionValid or addCurrentVersion returns
\* without error, the log has a latest entry and its version is the
\* manifest's version (as a version: the manifest's text normalized) at that
\* moment.
SuccessLeavesLatestAtManifest ==
  [][(last'.op \in {"ensureCurrentVersionValid", "addCurrentVersion"}
        /\ last'.err = "none") =>
       /\ pkg'.kind = "json"
       /\ IsVersionText(pkg'.val.version)
       /\ History(logf') # <<>>
       /\ TripleOf(History(logf')[Len(History(logf'))].version)
              = TripleOf(pkg'.val.version)]_vars

\* addCurrentVersion has appended the manifest's version to a log that
\* already had an entry
AddedOnTopOfHistory ==
  /\ last.op = "addCurrentVersion"
  /\ last.err = "none"
  /\ last.wrote
  /\ Len(History(logf)) >= 2
  /\ LatestTriple = CurrentTriple

\* ---------------------------------------------------------------------
\* The order of the recommendations

\* C32: for every log that validates and every level, the version
\* recommendNextVersion(level) returns is strictly greater than the latest
\* logged version (than 0.0.0 for an empty log), by compareVersions and as a
\* triple; and for that log the patch recommendation is less than the minor
\* recommendation, which is less than the major recommendation.
RecommendationsAscend ==
  [][(last'.op = "recommendNextVersion" /\ last'.err = "none") =>
       /\ compareVersions(last'.ret, LatestOrZero(loadLog(logf).val)) > 0
       /\ TripleLess(TripleOf(LatestOrZero(loadLog(logf).val)), TripleOf(last'.ret))
       /\ compareVersions(recommendNextVersion(logf, "patch").val,
                          recommendNextVersion(logf, "minor").val) < 0
       /\ compareVersions(recommendNextVersion(logf, "minor").val,
                          recommendNextVersion(logf, "major").val) < 0
       /\ TripleLess(TripleOf(recommendNextVersion(logf, "patch").val),
                     TripleOf(recommendNextVersion(logf, "minor").val))
       /\ TripleLess(TripleOf(recommendNextVersion(logf, "minor").val),
                     TripleOf(recommendNextVersion(logf, "major").val))]_vars

\* a patch bump was recommended over a latest version that already had a
\* patch
PatchRecommendedOverPatch ==
  /\ last.op = "recommendNextVersion"
  /\ last.err = "none"
  /\ last.level = "patch"
  /\ History(logf) # <<>>
  /\ LatestTriple[3] > 0
  /\ TripleOf(last.ret) = <<LatestTriple[1], LatestTriple[2], LatestTriple[3] + 1>>

\* ---------------------------------------------------------------------
\* What detectAndUpdateVersion leaves alone

\* the file is missing, or the version detected in it is absent, is not a
\* valid semantic version, or is not below newVersion
NotBelow(name, file, newVersion) ==
  \/ file.kind = "absent"
  \/ DetectVersion(name, file).err # "none"
  \/ DetectVersion(name, file).val = Undefined
  \/ ~semverValid(DetectVersion(name, file).val)
  \/ ~semverValid(newVersion)
  \/ ~semverLt(DetectVersion(name, file).val, newVersion)

====
